---- MODULE Spec2Model ----
(***************************************************************************)
(* Model of the in-process cache subsystem of the URL shortener backend:   *)
(*   backend/saas_url/cache.py             LRUCache, CacheManager          *)
(*   backend/saas_url/cache_decorators.py  cache_result, cache_view, ...   *)
(*   backend/test_cache.py                 the concurrent writer scenario  *)
(*                                                                         *)
(* Every public method of LRUCache runs its whole body under self.lock     *)
(* (an RLock), so one method call is one atomic action of the model.  The  *)
(* memoization wrappers take no lock of their own: each of their cache     *)
(* accesses is one action and other threads may run in between.            *)
(*                                                                         *)
(* Python values are modelled as follows: an OrderedDict is a sequence of  *)
(* [key, value] records, first element = oldest; a dict is a function;     *)
(* None as a value is the string "None"; an Optional[int] is a sequence of *)
(* length 0 (None) or 1; time.time() is the integer clock "now".           *)
(***************************************************************************)
EXTENDS Integers, Sequences, FiniteSets, TLC

\* ------------------------------------------------------------------ bounds
\* max_size given to every modelled LRUCache (the registry's real profiles
\* are 5000/1000/500/2000/1000 entries; the algorithm only compares
\* len(self.cache) with max_size).
Cap == 2
\* default_ttl given to every modelled LRUCache, in clock ticks.
DefaultTtl == 2
\* the clock runs from 0 to MaxTime.
MaxTime == 2
\* number of foreground calls in one behaviour of Spec.
MaxOps == 3
\* number of foreground calls in one behaviour of LruSpec.
MaxLruOps == 4
\* number of foreground calls in one behaviour of FaultSpec.
MaxFaultOps == 3
\* number of sets and endpoint requests in one behaviour of ViewSpec.
MaxViewOps == 2
\* number of foreground calls in one behaviour of LockSpec.
MaxLockOps == 3
\* number of foreground calls in one behaviour of ReaperSpec.
MaxReaperOps == 2
\* number of foreground calls in one behaviour of RegSpec.
MaxRegOps == 3
\* test_concurrent_access: number of worker threads (5 in the test) and of
\* set/get pairs per worker (100 in the test).
NumWorkers == 2
PairsPerWorker == 2
\* ttl argument of the decorators (300 by default), in clock ticks.
MemoTtl == 1
\* number of calls of decorated functions in one behaviour of MemoSpec.
MaxCalls == 2
\* HttpSpec: number of requests served
MaxRequests == 2
\* ReaperLockSpec: number of foreground calls
MaxReaperLockOps == 2
\* StatsSpec: number of set and get calls after the start
MaxStatsOps == 2
\* MwSpec: number of requests served
MaxMwRequests == 3
\* KeySpec: number of keys computed
MaxKeyCalls == 2
\* SetLoopSpec: the instance is built with a max_size from 1 to MaxCapacity
MaxCapacity == 2
\* SetLoopSpec: number of foreground calls
MaxLoopOps == 3
\* SweepSpec: number of foreground calls
MaxSweepOps == 2
\* RaceSpec: number of foreground calls
MaxRaceOps == 3
\* ExpirySpec: number of foreground calls
MaxExpiryOps == 4
\* StampedeSpec: number of threads that call the memoized function
NumCallers == 2

Keys == {"A", "B", "C"}
Vals == {"v1", "v2"}
\* ttl arguments: omitted (None), 0, and a positive duration.
Ttls == {<<>>, <<0>>, <<1>>}

None == "None"

\* the names accepted by get_cache
CacheTypes == {"url", "user", "analytics", "session", "general"}

VARIABLES
    caches,     \* cache_manager: cache type -> LRUCache instance
    now,        \* time.time()
    last,       \* the call that was performed last, with its return value
    touched,    \* per instance: resident keys in the order of their latest set /
                \* successful get
    written,    \* per instance: resident key -> the set call that wrote it
                \* (time, ttl, value)
    nops,       \* number of foreground calls performed
    wpc,        \* test_concurrent_access: worker -> its position in the loop
    inconsistent, \* test_concurrent_access: a worker read back another value
    call,       \* wrapper thread -> its call of a decorated function in progress
    hist,       \* the completed calls of decorated functions, oldest first
    lost,       \* keys whose entry expired, was evicted or cleared since it was stored
    req,        \* the latest call that took a cache name, and how it was answered
    lock,       \* self.lock of each instance: the thread that holds it, or "free"
    thr,        \* foreground thread -> the instance whose "with self.lock" block
                \* it is in, or "idle"
    reaper      \* the cleanup thread of the instance under test

\* the variables of the registry, the locks and the cleanup thread
auxVars == <<req, lock, thr, reaper>>

otherVars == <<wpc, inconsistent, call, hist, lost, auxVars>>

vars == <<caches, now, last, touched, written, nops, wpc, inconsistent, call, hist, lost,
          req, lock, thr, reaper>>

\* ------------------------------------------------- OrderedDict and dict
HasKey(od, k) == \E i \in 1..Len(od) : od[i].key = k

ValueOf(od, k) == od[CHOOSE i \in 1..Len(od) : od[i].key = k].value

DelKey(od, k) == SelectSeq(od, LAMBDA e : e.key # k)

KeysOf(od) == {od[i].key : i \in 1..Len(od)}

DictDel(d, k) == [x \in (DOMAIN d) \ {k} |-> d[x]]

DictPut(d, k, v) == [x \in (DOMAIN d) \cup {k} |-> IF x = k THEN v ELSE d[x]]

EmptyDict == [x \in {} |-> 0]

\* ------------------------------------------------------------ LRUCache
NewCache(max_size, default_ttl, t) ==
    [max_size     |-> max_size,
     default_ttl  |-> default_ttl,
     cache        |-> <<>>,
     expiry_times |-> EmptyDict,
     stats        |-> [hits |-> 0, misses |-> 0, sets |-> 0, deletes |-> 0,
                       evictions |-> 0, expirations |-> 0,
                       created_at |-> t, last_cleanup |-> t]]

Bump(c, counter) == [c EXCEPT !.stats[counter] = @ + 1]

\* _is_expired: a key without an expiry record never expires; the test is strict.
IsExpired(c, key, t) ==
    IF key \notin DOMAIN c.expiry_times
    THEN FALSE
    ELSE t > c.expiry_times[key]

\* a _remove_expired that counts the removal twice
RemoveExpiredCountedTwice(c, key) ==
    IF HasKey(c.cache, key) /\ key \in DOMAIN c.expiry_times
    THEN Bump(Bump([c EXCEPT !.cache = DelKey(@, key),
                             !.expiry_times = DictDel(@, key)], "expirations"),
              "expirations")
    ELSE [c EXCEPT !.cache = DelKey(@, key)]

\* _remove_expired: a KeyError is swallowed and then nothing is counted.
RemoveExpired(c, key) ==
    IF HasKey(c.cache, key) /\ key \in DOMAIN c.expiry_times
    THEN Bump([c EXCEPT !.cache = DelKey(@, key),
                        !.expiry_times = DictDel(@, key)], "expirations")
    ELSE [c EXCEPT !.cache = DelKey(@, key)]

\* an _evict_lru that removes nothing
EvictLruNothing(c) == c

\* _evict_lru: removes the first item of the OrderedDict.
EvictLru(c) ==
    IF Len(c.cache) = 0
    THEN c
    ELSE Bump([c EXCEPT !.cache = Tail(@),
                        !.expiry_times = DictDel(@, Head(c.cache).key)], "evictions")

\* the eviction loop with the test "len(self.cache) > self.max_size"
RECURSIVE EvictWhileOverfull(_)
EvictWhileOverfull(c) ==
    IF Len(c.cache) > c.max_size
    THEN EvictWhileOverfull(EvictLru(c))
    ELSE c

\* the loop "while len(self.cache) >= self.max_size: self._evict_lru()"
RECURSIVE EvictWhileFull(_)
EvictWhileFull(c) ==
    IF Len(c.cache) >= c.max_size
    THEN EvictWhileFull(EvictLru(c))
    ELSE c

\* "ttl or self.default_ttl": None and 0 are both falsy.
TtlOrDefault(c, ttl) ==
    IF Len(ttl) = 0 \/ ttl[1] = 0 THEN c.default_ttl ELSE ttl[1]

\* set without the removal of the existing entry: the key is stored twice
SetOpNoRemove(c, key, value, ttl, t) ==
    LET c2 == EvictWhileFull(c)
        c3 == [c2 EXCEPT !.cache = Append(@, [key |-> key, value |-> value]),
                         !.expiry_times = DictPut(@, key, t + TtlOrDefault(c, ttl))]
    IN  [c |-> Bump(c3, "sets"), ret |-> TRUE]

\* a set that drops the overdue entries before it looks at the size
SetOpPurgesExpired(c, key, value, ttl, t) ==
    LET overdue == {k \in KeysOf(c.cache) \ {key} :
                       k \in DOMAIN c.expiry_times /\ t > c.expiry_times[k]}
        c0 == [c EXCEPT !.cache = SelectSeq(@, LAMBDA e : e.key \notin overdue),
                        !.expiry_times = [k \in (DOMAIN @) \ overdue |-> @[k]]]
        c1 == IF HasKey(c0.cache, key)
              THEN [c0 EXCEPT !.cache = DelKey(@, key),
                              !.expiry_times = DictDel(@, key)]
              ELSE c0
        c2 == EvictWhileFull(c1)
        c3 == [c2 EXCEPT !.cache = Append(@, [key |-> key, value |-> value]),
                         !.expiry_times = DictPut(@, key, t + TtlOrDefault(c, ttl))]
    IN  [c |-> Bump(c3, "sets"), ret |-> TRUE]

\* LRUCache.set.  "del self.expiry_times[key]" raises KeyError for a resident
\* key without expiry record, after "del self.cache[key]": the except clause
\* returns False.
SetOp(c, key, value, ttl, t) ==
    LET c1 == IF HasKey(c.cache, key)
              THEN [c EXCEPT !.cache = DelKey(@, key),
                             !.expiry_times = DictDel(@, key)]
              ELSE c
        c2 == EvictWhileFull(c1)
        c3 == [c2 EXCEPT !.cache = Append(@, [key |-> key, value |-> value]),
                         !.expiry_times = DictPut(@, key, t + TtlOrDefault(c, ttl))]
    IN  IF HasKey(c.cache, key) /\ key \notin DOMAIN c.expiry_times
        THEN [c |-> [c EXCEPT !.cache = DelKey(@, key)], ret |-> FALSE]
        ELSE [c |-> Bump(c3, "sets"), ret |-> TRUE]

\* LRUCache.set called with a ttl that cannot be added to a float (a non-empty
\* str): "time.time() + (ttl or self.default_ttl)" raises TypeError after the
\* removal of the old entry, the evictions and "self.cache[key] = value"; the
\* except clause returns False.
SetOpBadTtl(c, key, value) ==
    LET c1 == IF HasKey(c.cache, key)
              THEN [c EXCEPT !.cache = DelKey(@, key),
                             !.expiry_times = DictDel(@, key)]
              ELSE c
        c2 == EvictWhileFull(c1)
        c3 == [c2 EXCEPT !.cache = Append(@, [key |-> key, value |-> value])]
    IN  IF HasKey(c.cache, key) /\ key \notin DOMAIN c.expiry_times
        THEN [c |-> [c EXCEPT !.cache = DelKey(@, key)], ret |-> FALSE]
        ELSE [c |-> c3, ret |-> FALSE]

\* LRUCache.set called with an unhashable key (a list): "key in self.cache"
\* raises TypeError before anything is changed; the except clause returns False.
SetOpBadKey(c, value) == [c |-> c, ret |-> FALSE]

\* get that returns the value without moving the entry to the end
GetOpNoMove(c, key, default, t) ==
    IF HasKey(c.cache, key)
    THEN IF IsExpired(c, key, t)
         THEN [c |-> Bump(RemoveExpired(c, key), "misses"),
               ret |-> default, branch |-> "expired"]
         ELSE [c |-> Bump(c, "hits"),
               ret |-> ValueOf(c.cache, key), branch |-> "valid"]
    ELSE [c |-> Bump(c, "misses"), ret |-> default, branch |-> "absent"]

\* get that returns the value stored last, whatever its key
GetOpReturnsNewest(c, key, default, t) ==
    IF HasKey(c.cache, key)
    THEN IF IsExpired(c, key, t)
         THEN [c |-> Bump(RemoveExpired(c, key), "misses"),
               ret |-> default, branch |-> "expired"]
         ELSE [c |-> Bump([c EXCEPT !.cache =
                              Append(DelKey(@, key),
                                     [key |-> key, value |-> ValueOf(c.cache, key)])],
                          "hits"),
               ret |-> c.cache[Len(c.cache)].value, branch |-> "valid"]
    ELSE [c |-> Bump(c, "misses"), ret |-> default, branch |-> "absent"]

\* get that does not count the miss of an expired entry
GetOpExpiredUncounted(c, key, default, t) ==
    IF HasKey(c.cache, key)
    THEN IF IsExpired(c, key, t)
         THEN [c |-> RemoveExpired(c, key),
               ret |-> default, branch |-> "expired"]
         ELSE [c |-> Bump([c EXCEPT !.cache =
                              Append(DelKey(@, key),
                                     [key |-> key, value |-> ValueOf(c.cache, key)])],
                          "hits"),
               ret |-> ValueOf(c.cache, key), branch |-> "valid"]
    ELSE [c |-> Bump(c, "misses"), ret |-> default, branch |-> "absent"]

\* LRUCache.get; "branch" names the path taken through the method.
GetOp(c, key, default, t) ==
    IF HasKey(c.cache, key)
    THEN IF IsExpired(c, key, t)
         THEN [c |-> Bump(RemoveExpired(c, key), "misses"),
               ret |-> default, branch |-> "expired"]
         ELSE [c |-> Bump([c EXCEPT !.cache =
                              Append(DelKey(@, key),
                                     [key |-> key, value |-> ValueOf(c.cache, key)])],
                          "hits"),
               ret |-> ValueOf(c.cache, key), branch |-> "valid"]
    ELSE [c |-> Bump(c, "misses"), ret |-> default, branch |-> "absent"]

\* exists that moves a valid entry to the end, as get does
ExistsOpMovesToEnd(c, key, t) ==
    IF HasKey(c.cache, key)
    THEN IF IsExpired(c, key, t)
         THEN [c |-> RemoveExpired(c, key), ret |-> FALSE]
         ELSE [c |-> [c EXCEPT !.cache =
                         Append(DelKey(@, key),
                                [key |-> key, value |-> ValueOf(c.cache, key)])],
               ret |-> TRUE]
    ELSE [c |-> c, ret |-> FALSE]

\* LRUCache.exists
ExistsOp(c, key, t) ==
    IF HasKey(c.cache, key)
    THEN IF IsExpired(c, key, t)
         THEN [c |-> RemoveExpired(c, key), ret |-> FALSE]
         ELSE [c |-> c, ret |-> TRUE]
    ELSE [c |-> c, ret |-> FALSE]

\* delete that leaves the expiry record of the key behind
DeleteOpKeepsExpiry(c, key) ==
    IF HasKey(c.cache, key)
    THEN [c |-> Bump([c EXCEPT !.cache = DelKey(@, key)], "deletes"),
          ret |-> TRUE]
    ELSE [c |-> c, ret |-> FALSE]

\* LRUCache.delete
DeleteOp(c, key) ==
    IF HasKey(c.cache, key)
    THEN [c |-> Bump([c EXCEPT !.cache = DelKey(@, key),
                               !.expiry_times = DictDel(@, key)], "deletes"),
          ret |-> TRUE]
    ELSE [c |-> c, ret |-> FALSE]

\* clear that also starts the counters afresh
ClearOpResetStats(c) ==
    [c EXCEPT !.cache = <<>>, !.expiry_times = EmptyDict,
              !.stats = [@ EXCEPT !.hits = 0, !.misses = 0, !.sets = 0,
                                  !.deletes = 0, !.evictions = 0, !.expirations = 0]]

\* LRUCache.clear
ClearOp(c) == [c EXCEPT !.cache = <<>>, !.expiry_times = EmptyDict]

\* round(a / b): the nearest integer, a tie goes to the even one
RoundDiv(a, b) ==
    LET q == a \div b
        r == a % b
    IN  IF 2 * r > b THEN q + 1
        ELSE IF 2 * r < b THEN q
        ELSE q + (q % 2)

\* a hit rate cut off after two decimals
HitRateTruncated(hits, misses) ==
    IF hits + misses > 0 THEN (hits * 10000) \div (hits + misses) ELSE 0

\* "round(hit_rate, 2)" with "hit_rate = hits / total_requests * 100 if
\* total_requests > 0 else 0", in hundredths of a percent
HitRate(hits, misses) ==
    LET total_requests == hits + misses
    IN  IF total_requests > 0 THEN RoundDiv(hits * 10000, total_requests) ELSE 0

\* LRUCache.get_stats: the counters with the current and the maximal size and
\* the hit rate; the instance is only read.
GetStatsOp(c, t) ==
    [c |-> c,
     ret |-> [hits |-> c.stats.hits, misses |-> c.stats.misses,
              sets |-> c.stats.sets, deletes |-> c.stats.deletes,
              evictions |-> c.stats.evictions,
              expirations |-> c.stats.expirations,
              current_size |-> Len(c.cache), max_size |-> c.max_size,
              hit_rate |-> HitRate(c.stats.hits, c.stats.misses),
              uptime_seconds |-> t - c.stats.created_at,
              last_cleanup_seconds |-> t - c.stats.last_cleanup]]

\* the counters kept in self.stats
Counters == {"hits", "misses", "sets", "deletes", "evictions", "expirations"}

\* LRUCache._cleanup_expired: one sweep of the cleanup thread.
RECURSIVE RemoveAllExpired(_, _)
RemoveAllExpired(c, ks) ==
    IF ks = {}
    THEN c
    ELSE LET k == CHOOSE x \in ks : TRUE
         IN  RemoveAllExpired(RemoveExpired(c, k), ks \ {k})

\* a sweep that removes nothing
CleanupExpiredNothing(c, t) == [c EXCEPT !.stats.last_cleanup = t]

\* a sweep that also removes the keys whose expiry is the current time
CleanupExpiredInclusive(c, t) ==
    LET expired_keys == {k \in DOMAIN c.expiry_times : t >= c.expiry_times[k]}
    IN  [RemoveAllExpired(c, expired_keys) EXCEPT !.stats.last_cleanup = t]

CleanupExpired(c, t) ==
    LET expired_keys == {k \in DOMAIN c.expiry_times : t > c.expiry_times[k]}
    IN  [RemoveAllExpired(c, expired_keys) EXCEPT !.stats.last_cleanup = t]

\* _cleanup_expired that faults after the keys ks were removed: the except
\* clause logs the error, last_cleanup is not updated.
CleanupExpiredFault(c, t, ks) == RemoveAllExpired(c, ks)

\* -------------------------------------------------------- CacheManager
\* CacheManager.__init__: five separate instances.
NewCacheManager(t) == [n \in CacheTypes |-> NewCache(Cap, DefaultTtl, t)]

\* get_cache whose fallback is the url instance and which hands out the
\* general instance for 'session' too
GetCacheNameAliased(cache_type) ==
    IF cache_type \in CacheTypes \ {"session"}
    THEN cache_type
    ELSE IF cache_type = "session" THEN "general" ELSE "url"

\* get_cache: unknown names fall back to the general instance.
GetCacheName(cache_type) ==
    IF cache_type \in CacheTypes THEN cache_type ELSE "general"

\* CacheManager.clear_all
ClearAll(cs) == [n \in DOMAIN cs |-> ClearOp(cs[n])]

\* ------------------------------------------------- recency bookkeeping
\* the keys of one instance, oldest use first: a key moves to the end on
\* every set and every get that returns its value.
Touch(order, key) == Append(SelectSeq(order, LAMBDA x : x # key), key)

\* the bookkeeping of the entries that left the instance is dropped
Resident(order, od) == SelectSeq(order, LAMBDA x : HasKey(od, x))

Forget(w, od) == [k \in {x \in DOMAIN w : HasKey(od, x)} |-> w[k]]

NoCall == [op |-> "init", inst |-> "general", key |-> None, value |-> None,
           ttl |-> <<>>, size |-> 0, ret |-> None, branch |-> None]

\* the record of a call: "size" is the number of resident entries when it began
Call(op, n, key) ==
    [NoCall EXCEPT !.op = op, !.inst = n, !.key = key,
                   !.size = Len(caches[n].cache)]

\* ------------------------------------------- test_concurrent_access
Workers == 0..(NumWorkers - 1)

\* str() of a small int
IntStr(i) == <<"0", "1", "2", "3", "4", "5", "6", "7", "8", "9">>[i + 1]

\* f"concurrent_key_{worker_id}_{i}" and f"value_{worker_id}_{i}"
WorkerKey(w, i) == "concurrent_key_" \o IntStr(w) \o "_" \o IntStr(i)

WorkerValue(w, i) == "value_" \o IntStr(w) \o "_" \o IntStr(i)

\* ttl=60 of the test: longer than the test runs
WorkerTtl == MaxTime + 1

\* ------------------------------------------------ decorated functions
\* the threads that call decorated functions
MemoThreads == {"t1"}

\* cache_type of the decorators, as in test_cache_decorators
MemoType == "analytics"

\* the decorator applied and, for cache_view, the method of the request
MemoRequests == {<<"result", "-">>, <<"view", "GET">>}

\* positional arguments of the calls: f(1) and f(2)
MemoArgs == {<<1>>, <<2>>}

\* what one invocation of the wrapped unit does: a plain function returns a
\* value or None, a view a response with status 200 or 404; both may raise.
Outcomes(kind) ==
    IF kind = "view" THEN {"r200", "r404", "raise"} ELSE {"v1", None, "raise"}

AllOutcomes == Outcomes("view") \cup Outcomes("result")

\* str() of a tuple of ints: "(1,)", "(1, 2)"
RECURSIVE JoinInts(_)
JoinInts(args) ==
    IF Len(args) = 0 THEN ""
    ELSE IF Len(args) = 1 THEN IntStr(args[1])
    ELSE IntStr(args[1]) \o ", " \o JoinInts(Tail(args))

StrOfInts(args) ==
    IF Len(args) = 1 THEN "(" \o IntStr(args[1]) \o ",)"
    ELSE "(" \o JoinInts(args) \o ")"

\* str() of a tuple of strings: "('a',)", "('a', 'b')"
RECURSIVE JoinStrs(_)
JoinStrs(parts) ==
    IF Len(parts) = 0 THEN ""
    ELSE IF Len(parts) = 1 THEN "'" \o parts[1] \o "'"
    ELSE "'" \o parts[1] \o "', " \o JoinStrs(Tail(parts))

StrOfStrs(parts) ==
    IF Len(parts) = 1 THEN "('" \o parts[1] \o "',)"
    ELSE "(" \o JoinStrs(parts) \o ")"

\* hashlib.md5(...).hexdigest(), taken to be free of collisions
Md5(data) == "md5<" \o data \o ">"

\* the names keyword arguments may have, in the order sorted() puts them
KwNames == <<"x", "y">>

\* sorted(kwargs.items()): the items of the dict (kept in the order of the
\* call) ordered by name
RECURSIVE SortedItemsFrom(_, _)
SortedItemsFrom(kwargs, i) ==
    IF i > Len(KwNames) THEN <<>>
    ELSE SelectSeq(kwargs, LAMBDA kv : kv[1] = KwNames[i])
             \o SortedItemsFrom(kwargs, i + 1)

SortedItems(kwargs) == SortedItemsFrom(kwargs, 1)

\* str() of a list of (name, int) pairs: "[]", "[('x', 1), ('y', 2)]"
RECURSIVE JoinItems(_)
JoinItems(items) ==
    IF Len(items) = 0 THEN ""
    ELSE LET first == "('" \o items[1][1] \o "', " \o IntStr(items[1][2]) \o ")"
         IN  IF Len(items) = 1 THEN first
             ELSE first \o ", " \o JoinItems(Tail(items))

StrOfItems(items) == "[" \o JoinItems(items) \o "]"

\* generate_cache_key with args and sorted(kwargs.items()) already rendered
\* by str()
GenerateCacheKeyOf(func_name, args_str, kwargs_str, prefix) ==
    LET key_data == func_name \o ":" \o args_str \o ":" \o kwargs_str
        key_hash == Md5(key_data)
    IN  IF prefix # "" THEN prefix \o ":" \o key_hash ELSE key_hash

\* generate_cache_key with args already rendered by str() and kwargs = {}
GenerateCacheKey(func_name, args_str, prefix) ==
    GenerateCacheKeyOf(func_name, args_str, StrOfItems(SortedItems(<<>>)), prefix)

\* the decorated functions: two of the same name in different modules, and
\* a third one
KeyFuncs == {[module |-> "a", name |-> "f"], [module |-> "b", name |-> "f"],
             [module |-> "a", name |-> "g"]}

\* positional arguments, keyword arguments in the order of the call, and
\* key_prefix of the calls
KeyArgs == {<<1>>, <<2>>}

KeyKwargs == {<<>>, <<<<"x", 1>>>>, <<<<"x", 2>>>>,
              <<<<"x", 1>>, <<"y", 2>>>>, <<<<"y", 2>>, <<"x", 1>>>>}

KeyPrefixes == {"", "p"}

\* cache_result.wrapper: generate_cache_key(func.__name__, args, kwargs,
\* key_prefix)
CacheResultKey(func, args, kwargs, key_prefix) ==
    GenerateCacheKeyOf(func.name, StrOfInts(args), StrOfItems(SortedItems(kwargs)),
                       key_prefix)

\* the cache key cache_result and cache_view compute for a call (key_prefix
\* = '', an anonymous request for path "/p" without query)
WrapperKey(kind, method, args) ==
    IF kind = "view"
    THEN GenerateCacheKey("v", StrOfStrs(<<"v", method, "/p", StrOfInts(args)>>), "")
    ELSE GenerateCacheKey("f", StrOfInts(args), "")

Idle == [pc |-> "idle"]

\* a call entering the wrapper
NewCall(kind, method, args) ==
    [pc |-> "lookup",
     kind |-> kind, method |-> method, args |-> args,
     key |-> WrapperKey(kind, method, args),
     result |-> None,       \* the local variable result / response
     ret |-> None,          \* what the caller receives
     raised |-> FALSE,      \* the caller receives an exception
     origin |-> "-",        \* where the caller's value or exception comes from
     inv |-> 0,             \* invocations of the wrapped unit
     outcome |-> "-",       \* what the latest invocation did
     unit_failed |-> FALSE, \* an invocation raised
     faulted |-> FALSE,     \* the cache layer faulted
     miss |-> FALSE,        \* cache.get returned None
     disturbed |-> FALSE,   \* the entry had expired, been evicted or cleared
     stored |-> FALSE]      \* cache.set stored the result

\* one invocation of the wrapped unit
Invoke(c, outcome) ==
    [c EXCEPT !.inv = @ + 1, !.outcome = outcome,
              !.unit_failed = @ \/ outcome = "raise"]

Return(c, value, origin) ==
    [c EXCEPT !.pc = "return", !.ret = value, !.origin = origin]

Raise(c, origin) ==
    [c EXCEPT !.pc = "return", !.raised = TRUE, !.origin = origin]

\* "cached_result = cache.get(cache_key); if cached_result is not None: return"
WrapperAfterGet(c, cached) ==
    IF cached # None
    THEN Return(c, cached, "cache")
    ELSE [c EXCEPT !.pc = "compute", !.miss = TRUE]

\* "result = func(*args, **kwargs)" inside the try block
WrapperCompute(c, outcome) ==
    IF outcome = "raise"
    THEN [Invoke(c, outcome) EXCEPT !.pc = "except"]
    ELSE [Invoke(c, outcome) EXCEPT !.pc = "store", !.result = outcome]

\* response.status_code
StatusCode(response) == IF response = "r404" THEN 404 ELSE 200

\* whether the wrapper calls cache.set: always, but cache_view only for 200
WrapperStores(c) == c.kind # "view" \/ StatusCode(c.result) = 200

\* an except clause that lets the error of the cache layer reach the caller
WrapperExceptReraise(c, outcome) == Raise(c, "cache_error")

\* "except Exception: return func(*args, **kwargs)"
WrapperExcept(c, outcome) ==
    IF outcome = "raise"
    THEN Raise(Invoke(c, outcome), "unit_error")
    ELSE Return(Invoke(c, outcome), outcome, "unit")

\* what the history keeps of a finished call
Summary(c) ==
    [kind |-> c.kind, args |-> c.args, ret |-> c.ret, raised |-> c.raised,
     origin |-> c.origin, inv |-> c.inv, outcome |-> c.outcome,
     unit_failed |-> c.unit_failed, faulted |-> c.faulted, miss |-> c.miss,
     disturbed |-> c.disturbed, stored |-> c.stored]

\* ------------------------------------------------- requests and views
\* request.user: two authenticated users by their id, '' for an anonymous one
HttpUsers == {"", "1", "2"}

\* request.method: GET and one of the methods that change data
HttpMethods == {"GET", "PUT"}

MutatingMethods == {"POST", "PUT", "PATCH", "DELETE"}

ProfilePath == "/api/users/profile/"

RedirectPath == "/api/urls/redirect/x/"

\* request.path: the two cached paths and one that no rule matches
HttpPaths == {ProfilePath, RedirectPath, "/api/other/"}

\* how a request is served: by a plain view behind the two middlewares, or by
\* a view decorated with cache_view
HttpKinds == {"mw", "view"}

\* the ttl of the rules (1800 s, 3600 s): longer than a run
HttpTtl == MaxTime + 1

NoConfig == [cache_type |-> None, ttl |-> 0, vary_by_user |-> FALSE,
             vary_by_method |-> FALSE]

\* CacheMiddleware._get_cache_config with the rules of CACHE_RULES: the rule
\* whose pattern matches the path, or none
GetCacheConfig(path) ==
    IF path = ProfilePath
    THEN [cache_type |-> "user", ttl |-> HttpTtl, vary_by_user |-> TRUE,
          vary_by_method |-> FALSE]
    ELSE IF path = RedirectPath
    THEN [cache_type |-> "url", ttl |-> HttpTtl, vary_by_user |-> FALSE,
          vary_by_method |-> FALSE]
    ELSE NoConfig

\* a key that never names the user
UserPartOmitted(vary_by_user, user) == <<>>

\* "if vary_by_user and ... request.user.is_authenticated:
\*      key_parts.append(f"user_{request.user.id}")"
UserPart(vary_by_user, user) ==
    IF vary_by_user /\ user # "" THEN <<"user_" \o user>> ELSE <<>>

\* "if vary_by_method: key_parts.append(request.method)"
MethodPart(vary_by_method, method) ==
    IF vary_by_method THEN <<method>> ELSE <<>>

\* ':'.join(key_parts)
RECURSIVE JoinColon(_)
JoinColon(parts) ==
    IF Len(parts) = 0 THEN ""
    ELSE IF Len(parts) = 1 THEN parts[1]
    ELSE parts[1] \o ":" \o JoinColon(Tail(parts))

\* CacheMiddleware._generate_cache_key for a request without query
\* parameters
MwGenerateCacheKey(method, path, user, config) ==
    LET key_parts == <<path>> \o UserPart(config.vary_by_user, user)
                              \o MethodPart(config.vary_by_method, method)
        key_data == JoinColon(key_parts)
    IN  "middleware:" \o Md5(key_data)

\* view_func.__name__ of the view that serves the path
ViewName(path) ==
    IF path = ProfilePath THEN "profile"
    ELSE IF path = RedirectPath THEN "redirect" ELSE "other"

\* the arguments of cache_view on the view of a path: cache_type and
\* vary_by_user as in the rule of the path (for a path without rule the
\* defaults 'general' and True), vary_by_method=True, the default
ViewConfig(path) ==
    IF GetCacheConfig(path) = NoConfig
    THEN [cache_type |-> "general", ttl |-> HttpTtl, vary_by_user |-> TRUE,
          vary_by_method |-> TRUE]
    ELSE [GetCacheConfig(path) EXCEPT !.vary_by_method = TRUE]

\* the key cache_view computes for a request without query parameters, the
\* view taking no further arguments, key_prefix = ''
ViewGenerateCacheKey(method, path, user, config) ==
    LET cache_key_parts == <<ViewName(path)>>
                               \o MethodPart(config.vary_by_method, method)
                               \o UserPart(config.vary_by_user, user)
                               \o <<path>>
    IN  GenerateCacheKey(ViewName(path), StrOfStrs(cache_key_parts), "")

\* the response of a view with status 200: the profile shows the data of the
\* requesting user in its current version, the other paths show the same to
\* everybody
OkResponse(path, user, version) ==
    IF path = ProfilePath
    THEN "r200:profile:" \o user \o ":" \o IntStr(version)
    ELSE "r200:" \o ViewName(path)

\* a request entering the middlewares or the wrapper of cache_view
NewRequest(kind, method, path, user) ==
    [pc |-> "request",
     kind |-> kind, method |-> method, path |-> path, user |-> user,
     config |-> IF kind = "mw" THEN GetCacheConfig(path) ELSE ViewConfig(path),
     cache_key |-> None,           \* request._cache_key / cache_key once computed
     should_invalidate |-> FALSE,  \* request._should_invalidate_cache
     response |-> None,
     read |-> FALSE,               \* cache.get was called
     miss |-> FALSE,               \* cache.get returned None
     from_cache |-> FALSE,         \* the response is the cached one
     viewed |-> FALSE,             \* the view ran
     wrote |-> FALSE]              \* cache.set was called

\* whether the request is looked up in the cache: CacheMiddleware only for a
\* GET whose path has a rule, cache_view for every GET
LooksUp(c) ==
    /\ c.method = "GET"
    /\ c.kind = "mw" => c.config # NoConfig

\* the key of the request
RequestKey(c) ==
    IF c.kind = "mw"
    THEN MwGenerateCacheKey(c.method, c.path, c.user, c.config)
    ELSE ViewGenerateCacheKey(c.method, c.path, c.user, c.config)

\* CacheInvalidationMiddleware.process_request:
\* _should_invalidate_cache_for_request
ShouldInvalidate(method, path) ==
    method \in MutatingMethods /\ path \in {ProfilePath}

\* a request that is not looked up goes on to the view
SkipLookup(c) ==
    [c EXCEPT !.pc = "view",
              !.should_invalidate = c.kind = "mw" /\ ShouldInvalidate(c.method, c.path)]

\* "cached_response = cache.get(cache_key); if cached_response is not None:
\* return cached_response", else the key is kept and the view runs
AfterLookup(c, cached) ==
    IF cached # None
    THEN [c EXCEPT !.pc = "response", !.cache_key = RequestKey(c), !.read = TRUE,
                   !.response = cached, !.from_cache = TRUE]
    ELSE [c EXCEPT !.pc = "view", !.cache_key = RequestKey(c), !.read = TRUE,
                   !.miss = TRUE]

\* the view ran and produced its response
AfterView(c, response) ==
    [c EXCEPT !.pc = "response", !.response = response, !.viewed = TRUE]

\* a response of any status is stored after a miss
StoresResponseOfAnyStatus(c) == c.miss

\* process_response of CacheMiddleware and the end of the wrapper of
\* cache_view: the response of a request that missed is stored if its status
\* is 200
StoresResponse(c) == c.miss /\ StatusCode(c.response) = 200

\* CacheInvalidationMiddleware.process_response: whether
\* _invalidate_user_cache is called
Invalidates(c) ==
    c.should_invalidate /\ StatusCode(c.response) \in {200, 201, 204} /\ c.user # ""

\* CacheInvalidationMiddleware._invalidate_user_cache
InvalidateUserCache(cs, user_id) ==
    [cs EXCEPT
       !["user"] = DeleteOp(@, "user_profile_" \o user_id).c,
       !["url"] = DeleteOp(@, "user_urls_" \o user_id).c,
       !["analytics"] = DeleteOp(DeleteOp(@, "user_stats_" \o user_id).c,
                                 "user_analytics_" \o user_id).c]

\* what the history keeps of a served request
HttpSummary(c) ==
    [kind |-> c.kind, method |-> c.method, path |-> c.path, user |-> c.user,
     config |-> c.config, cache_key |-> c.cache_key,
     response |-> c.response, status |-> StatusCode(c.response),
     read |-> c.read, miss |-> c.miss, from_cache |-> c.from_cache,
     viewed |-> c.viewed, wrote |-> c.wrote,
     should_invalidate |-> c.should_invalidate]

\* ------------------------------------------------------ health endpoint
\* CacheManager.get_all_stats: the instances in the order of the dict, under
\* the names 'url_cache', 'user_cache', ...
StatsOrder == <<"url", "user", "analytics", "session", "general">>

\* the issues of one instance that only looks at the hit rate
HealthIssuesOfHitRate(cache_name, stats) ==
    IF stats.hit_rate < 10 * 100
    THEN <<[cache_name |-> cache_name, issue |-> "Low hit rate"]>>
    ELSE <<>>

\* CacheHealthView.get, the body of the loop: "if hit_rate < 10" and
\* "if current_size > max_size * 0.9" (hit_rate in hundredths of a percent)
HealthIssuesOf(cache_name, stats) ==
    (IF stats.hit_rate < 10 * 100
     THEN <<[cache_name |-> cache_name, issue |-> "Low hit rate"]>>
     ELSE <<>>)
    \o (IF stats.current_size * 10 > stats.max_size * 9
        THEN <<[cache_name |-> cache_name, issue |-> "High memory usage"]>>
        ELSE <<>>)

\* the issues of the instances from the i-th on
RECURSIVE HealthIssuesFrom(_, _, _)
HealthIssuesFrom(cs, t, i) ==
    IF i > Len(StatsOrder) THEN <<>>
    ELSE HealthIssuesOf(StatsOrder[i] \o "_cache", GetStatsOp(cs[StatsOrder[i]], t).ret)
             \o HealthIssuesFrom(cs, t, i + 1)

\* CacheHealthView.get: the response
HealthView(cs, t) ==
    LET issues == HealthIssuesFrom(cs, t, 1)
    IN  [ep |-> "health", status |-> 200,
         health_status |-> IF Len(issues) > 0 THEN "warning" ELSE "healthy",
         issues |-> issues,
         cache_count |-> Len(StatsOrder)]

\* ------------------------------------------- registry, locks, reaper
\* no call that takes a cache name was made yet
NoRequest == [ep |-> "none", name |-> "-", pattern |-> "-", inst |-> "-",
              status |-> 0, count |-> 0]

\* the foreground threads that call into the instances concurrently
LockThreads == {"t1", "t2"}

\* one lock shared by all instances
LockOfShared(n) == "general"

\* "self.lock = threading.RLock()" in __init__: every instance has a lock of
\* its own; a lock is named after its instance.
LockOf(n) == n

\* the cleanup thread started by __init__: asleep, no sweep performed yet;
\* "n" is the parity of the number of sweeps performed, "faulted" whether one
\* of them faulted.
NewReaper == [pc |-> "sleep", outcome |-> "none", n |-> 0, faulted |-> FALSE]

\* a cleanup thread that ends when a sweep faults
ReaperAfterSweepStops(r, outcome) ==
    [pc |-> IF outcome = "fault" THEN "stopped" ELSE "sleep",
     outcome |-> outcome, n |-> 1 - r.n,
     faulted |-> r.faulted \/ outcome = "fault"]

\* _cleanup_worker after _cleanup_expired: a fault was caught and logged, by
\* _cleanup_expired or by the loop itself; "while True" goes on to the next sleep
ReaperAfterSweep(r, outcome) ==
    [pc |-> "sleep", outcome |-> outcome, n |-> 1 - r.n,
     faulted |-> r.faulted \/ outcome = "fault"]

\* --------------------------------------------------------------- Spec
\* Spec: one instance (the general cache) under arbitrary calls.
Inst == "general"

InitWith(manager) ==
    /\ caches = manager
    /\ now = 0
    /\ last = NoCall
    /\ touched = [n \in CacheTypes |-> <<>>]
    /\ written = [n \in CacheTypes |-> EmptyDict]
    /\ nops = 0
    /\ wpc = [w \in Workers |-> [i |-> 0, at |-> "set"]]
    /\ inconsistent = FALSE
    /\ call = [t \in MemoThreads |-> Idle]
    /\ hist = <<>>
    /\ lost = {}
    /\ req = NoRequest
    /\ lock = [l \in CacheTypes |-> "free"]
    /\ thr = [t \in LockThreads |-> "idle"]
    /\ reaper = NewReaper

Init == InitWith(NewCacheManager(0))

CacheSet(n, key, value, ttl) ==
    /\ LET r == SetOp(caches[n], key, value, ttl, now)
       IN  /\ caches' = [caches EXCEPT ![n] = r.c]
           /\ last' = [Call("set", n, key) EXCEPT !.value = value, !.ttl = ttl,
                                     !.branch = IF HasKey(caches[n].cache, key)
                                                THEN "replace" ELSE "new",
                                     !.ret = IF r.ret THEN "True" ELSE "False"]
           /\ written' = [written EXCEPT ![n] =
                  Forget(DictPut(@, key, [at |-> now, ttl |-> ttl, value |-> value]),
                         r.c.cache)]
           /\ touched' = [touched EXCEPT ![n] = Resident(Touch(@, key), r.c.cache)]
    /\ nops' = nops + 1
    /\ UNCHANGED now

\* cache.set(key, value, ttl='60')
CacheSetBadTtl(n, key, value) ==
    /\ LET r == SetOpBadTtl(caches[n], key, value)
       IN  /\ caches' = [caches EXCEPT ![n] = r.c]
           /\ last' = [Call("set", n, key) EXCEPT !.value = value,
                                     !.branch = "bad_ttl",
                                     !.ret = IF r.ret THEN "True" ELSE "False"]
           /\ written' = [written EXCEPT ![n] =
                  Forget(DictPut(@, key, [at |-> now, ttl |-> <<>>, value |-> value]),
                         r.c.cache)]
           /\ touched' = [touched EXCEPT ![n] = Resident(Touch(@, key), r.c.cache)]
    /\ nops' = nops + 1
    /\ UNCHANGED now

\* cache.set(['a'], value)
CacheSetBadKey(n, value) ==
    /\ LET r == SetOpBadKey(caches[n], value)
       IN  /\ caches' = [caches EXCEPT ![n] = r.c]
           /\ last' = [Call("set", n, None) EXCEPT !.value = value,
                                     !.branch = "bad_key",
                                     !.ret = IF r.ret THEN "True" ELSE "False"]
    /\ nops' = nops + 1
    /\ UNCHANGED <<now, touched, written>>

CacheGet(n, key) ==
    /\ LET r == GetOp(caches[n], key, None, now)
       IN  /\ caches' = [caches EXCEPT ![n] = r.c]
           /\ last' = [Call("get", n, key) EXCEPT !.ret = r.ret, !.branch = r.branch]
           /\ touched' = [touched EXCEPT ![n] =
                  Resident(IF r.branch = "valid" THEN Touch(@, key) ELSE @, r.c.cache)]
           /\ written' = [written EXCEPT ![n] = Forget(@, r.c.cache)]
    /\ nops' = nops + 1
    /\ UNCHANGED now

CacheExists(n, key) ==
    /\ LET r == ExistsOp(caches[n], key, now)
       IN  /\ caches' = [caches EXCEPT ![n] = r.c]
           /\ last' = [Call("exists", n, key) EXCEPT
                                     !.ret = IF r.ret THEN "True" ELSE "False"]
           /\ touched' = [touched EXCEPT ![n] = Resident(@, r.c.cache)]
           /\ written' = [written EXCEPT ![n] = Forget(@, r.c.cache)]
    /\ nops' = nops + 1
    /\ UNCHANGED now

CacheDelete(n, key) ==
    /\ LET r == DeleteOp(caches[n], key)
       IN  /\ caches' = [caches EXCEPT ![n] = r.c]
           /\ last' = [Call("delete", n, key) EXCEPT
                                     !.ret = IF r.ret THEN "True" ELSE "False"]
           /\ touched' = [touched EXCEPT ![n] = Resident(@, r.c.cache)]
           /\ written' = [written EXCEPT ![n] = Forget(@, r.c.cache)]
    /\ nops' = nops + 1
    /\ UNCHANGED now

CacheClear(n) ==
    /\ caches' = [caches EXCEPT ![n] = ClearOp(@)]
    /\ last' = Call("clear", n, None)
    /\ touched' = [touched EXCEPT ![n] = <<>>]
    /\ written' = [written EXCEPT ![n] = EmptyDict]
    /\ nops' = nops + 1
    /\ UNCHANGED now

CacheStats(n) ==
    /\ LET r == GetStatsOp(caches[n], now)
       IN  /\ caches' = [caches EXCEPT ![n] = r.c]
           /\ last' = [Call("stats", n, None) EXCEPT !.size = r.ret.current_size,
                                                    !.ret = "dict"]
    /\ nops' = nops + 1
    /\ UNCHANGED <<now, touched, written>>

\* one iteration of _cleanup_worker after its sleep
CacheSweep(n) ==
    /\ LET c == CleanupExpired(caches[n], now)
       IN  /\ caches' = [caches EXCEPT ![n] = c]
           /\ touched' = [touched EXCEPT ![n] = Resident(@, c.cache)]
           /\ written' = [written EXCEPT ![n] = Forget(@, c.cache)]
    /\ last' = Call("sweep", n, None)
    /\ UNCHANGED <<now, nops>>

ClockTick ==
    /\ now < MaxTime
    /\ now' = now + 1
    /\ UNCHANGED <<caches, last, touched, written, nops>>

\* what a call on an instance may change
coreVars == <<caches, last, touched, written, nops>>

\* the calls as made by a caller outside the writer and wrapper threads
Set(n, key, value, ttl) == CacheSet(n, key, value, ttl) /\ UNCHANGED otherVars

SetBadTtl(n, key, value) == CacheSetBadTtl(n, key, value) /\ UNCHANGED otherVars

SetBadKey(n, value) == CacheSetBadKey(n, value) /\ UNCHANGED otherVars

Get(n, key) == CacheGet(n, key) /\ UNCHANGED otherVars

Exists(n, key) == CacheExists(n, key) /\ UNCHANGED otherVars

Delete(n, key) == CacheDelete(n, key) /\ UNCHANGED otherVars

Clear(n) == CacheClear(n) /\ UNCHANGED otherVars

Stats(n) == CacheStats(n) /\ UNCHANGED otherVars

Sweep(n) == CacheSweep(n) /\ UNCHANGED otherVars

Tick == ClockTick /\ UNCHANGED otherVars

Next ==
    \/ \E key \in Keys, value \in Vals, ttl \in Ttls :
           nops < MaxOps /\ Set(Inst, key, value, ttl)
    \/ \E key \in Keys : nops < MaxOps /\ Get(Inst, key)
    \/ \E key \in Keys : nops < MaxOps /\ Exists(Inst, key)
    \/ \E key \in Keys : nops < MaxOps /\ Delete(Inst, key)
    \/ nops < MaxOps /\ Clear(Inst)
    \/ nops < MaxOps /\ Stats(Inst)
    \/ Sweep(Inst)
    \/ Tick

Spec == Init /\ [][Next]_vars

\* ------------------------------------------------------------ LruSpec
\* LruSpec: longer call sequences on one instance, every entry written with
\* the same value and a ttl of one tick.
LruNext ==
    \/ \E key \in Keys : nops < MaxLruOps /\ Set(Inst, key, "v1", <<1>>)
    \/ \E key \in Keys : nops < MaxLruOps /\ Get(Inst, key)
    \/ \E key \in Keys : nops < MaxLruOps /\ Exists(Inst, key)
    \/ \E key \in Keys : nops < MaxLruOps /\ Delete(Inst, key)
    \/ nops < MaxLruOps /\ Clear(Inst)
    \/ Sweep(Inst)
    \/ Tick

LruSpec == Init /\ [][LruNext]_vars

\* ---------------------------------------------------------- FaultSpec
\* FaultSpec: one instance under calls of set that fault: a ttl of the wrong
\* type, an unhashable key.
FaultNext ==
    \/ \E key \in Keys, value \in Vals :
           nops < MaxFaultOps /\ Set(Inst, key, value, <<1>>)
    \/ \E key \in Keys, value \in Vals :
           nops < MaxFaultOps /\ SetBadTtl(Inst, key, value)
    \/ \E value \in Vals : nops < MaxFaultOps /\ SetBadKey(Inst, value)
    \/ \E key \in Keys : nops < MaxFaultOps /\ Get(Inst, key)
    \/ \E key \in Keys : nops < MaxFaultOps /\ Exists(Inst, key)
    \/ \E key \in Keys : nops < MaxFaultOps /\ Delete(Inst, key)
    \/ Sweep(Inst)
    \/ Tick

FaultSpec == Init /\ [][FaultNext]_vars

\* ------------------------------------------------------------ RegSpec
\* RegSpec: the five instances of the cache manager, looked up by name, one
\* key per instance; clear_all acts on all of them.
RegNames == CacheTypes \cup {"other"}

\* what is unchanged by a call made through the registry
regFrame == <<wpc, inconsistent, call, hist, lost, lock, thr, reaper>>

\* "get_cache(name)": the call and the instance it returned
GetCacheCall(name) ==
    [NoRequest EXCEPT !.ep = "get_cache", !.name = name, !.inst = GetCacheName(name)]

\* get_cache(name).set('A', 'v1', ttl=1)
RegSet(name) ==
    /\ CacheSet(GetCacheCall(name).inst, "A", "v1", <<1>>)
    /\ req' = GetCacheCall(name)
    /\ UNCHANGED regFrame

\* get_cache(name).get('A')
RegGet(name) ==
    /\ CacheGet(GetCacheCall(name).inst, "A")
    /\ req' = GetCacheCall(name)
    /\ UNCHANGED regFrame

\* get_cache(name).delete('A')
RegDelete(name) ==
    /\ CacheDelete(GetCacheCall(name).inst, "A")
    /\ req' = GetCacheCall(name)
    /\ UNCHANGED regFrame

\* get_cache(name).clear()
RegClear(name) ==
    /\ CacheClear(GetCacheCall(name).inst)
    /\ req' = GetCacheCall(name)
    /\ UNCHANGED regFrame

\* CacheManager.clear_all
CacheClearAll ==
    /\ caches' = ClearAll(caches)
    /\ last' = [NoCall EXCEPT !.op = "clear_all", !.inst = "all"]
    /\ touched' = [n \in CacheTypes |-> <<>>]
    /\ written' = [n \in CacheTypes |-> EmptyDict]
    /\ nops' = nops + 1
    /\ UNCHANGED now

\* cache_manager.clear_all()
ClearAllCall ==
    /\ CacheClearAll
    /\ req' = [NoRequest EXCEPT !.ep = "clear_all", !.inst = "all"]
    /\ UNCHANGED regFrame

RegNext ==
    \/ \E name \in RegNames : nops < MaxRegOps /\ RegSet(name)
    \/ \E name \in RegNames : nops < MaxRegOps /\ RegGet(name)
    \/ \E name \in RegNames : nops < MaxRegOps /\ RegDelete(name)
    \/ \E name \in RegNames : nops < MaxRegOps /\ RegClear(name)
    \/ nops < MaxRegOps /\ ClearAllCall
    \/ Tick

RegSpec == Init /\ [][RegNext]_vars

\* ----------------------------------------------------------- ViewSpec
\* ViewSpec: the admin endpoints that take a cache name, called by an admin
\* user, next to sets through get_cache.
\* the "pattern" values of the invalidate endpoint: none, the two that clear,
\* another one
Patterns == {"", "*", "all", "x"}

\* the cache_type of the clear endpoint: a name, or none (clear everything)
ClearNames == RegNames \cup {""}

\* CacheClearView.post: how the request is answered
ClearViewPost(cache_type) ==
    IF cache_type # ""
    THEN IF cache_type \notin {"url", "user", "analytics", "session", "general"}
         THEN [NoRequest EXCEPT !.ep = "clear", !.name = cache_type, !.status = 400]
         ELSE [NoRequest EXCEPT !.ep = "clear", !.name = cache_type,
                                !.inst = GetCacheName(cache_type), !.status = 200]
    ELSE [NoRequest EXCEPT !.ep = "clear", !.name = cache_type,
                           !.inst = "all", !.status = 200]

\* an invalidation that clears the instance whatever the pattern is
InvalidateCachePatternAny(pattern, cache_type) ==
    [inst |-> GetCacheName(cache_type), clears |-> TRUE, count |-> 1]

\* invalidate_cache_pattern: the instance looked up, whether it is cleared,
\* the number returned
InvalidateCachePattern(pattern, cache_type) ==
    [inst |-> GetCacheName(cache_type),
     clears |-> pattern \in {"*", "all"},
     count |-> IF pattern \in {"*", "all"} THEN 1 ELSE 0]

\* cache_invalidate_pattern_view: how the request is answered
InvalidateView(pattern, cache_type) ==
    IF pattern = ""
    THEN [NoRequest EXCEPT !.ep = "invalidate", !.name = cache_type,
                           !.pattern = pattern, !.status = 400]
    ELSE [NoRequest EXCEPT !.ep = "invalidate", !.name = cache_type,
                           !.pattern = pattern,
                           !.inst = InvalidateCachePattern(pattern, cache_type).inst,
                           !.count = InvalidateCachePattern(pattern, cache_type).count,
                           !.status = 200]

\* cache_keys_view: how the request is answered
KeysView(cache_type) ==
    [NoRequest EXCEPT !.ep = "keys", !.name = cache_type,
                      !.inst = GetCacheName(cache_type), !.status = 200]

\* POST /api/cache/clear/ and /api/cache/clear/{cache_type}/
ClearEndpoint(cache_type) ==
    /\ req' = ClearViewPost(cache_type)
    /\ IF req'.status # 200
       THEN UNCHANGED <<coreVars, now>>
       ELSE IF req'.inst = "all" THEN CacheClearAll ELSE CacheClear(req'.inst)
    /\ UNCHANGED regFrame

\* GET of the keys endpoint
KeysEndpoint(cache_type) ==
    /\ req' = KeysView(cache_type)
    /\ CacheStats(req'.inst)
    /\ UNCHANGED regFrame

\* POST of the invalidate endpoint with {'pattern': ..., 'cache_type': ...}
InvalidateEndpoint(pattern, cache_type) ==
    /\ req' = InvalidateView(pattern, cache_type)
    /\ IF req'.status = 200 /\ InvalidateCachePattern(pattern, cache_type).clears
       THEN CacheClear(req'.inst)
       ELSE UNCHANGED <<coreVars, now>>
    /\ UNCHANGED regFrame

ViewNext ==
    \/ \E name \in RegNames : nops < MaxViewOps /\ RegSet(name)
    \/ \E cache_type \in ClearNames : nops < MaxViewOps /\ ClearEndpoint(cache_type)
    \/ \E cache_type \in RegNames : nops < MaxViewOps /\ KeysEndpoint(cache_type)
    \/ \E pattern \in Patterns, cache_type \in RegNames :
           nops < MaxViewOps /\ InvalidateEndpoint(pattern, cache_type)

ViewSpec == Init /\ [][ViewNext]_vars

\* ----------------------------------------------------------- LockSpec
\* LockSpec: two threads calling methods of two instances.  A method call is
\* two steps: the thread enters "with self.lock:", then runs the body and
\* leaves the block.
LockInsts == {"url", "user"}

lockFrame == <<wpc, inconsistent, call, hist, lost, req, reaper>>

\* a "with self.lock:" that is entered although another thread holds the lock
AcquireUnguarded(t, n) ==
    /\ thr[t] = "idle"
    /\ lock' = [lock EXCEPT ![LockOf(n)] = t]
    /\ thr' = [thr EXCEPT ![t] = n]
    /\ UNCHANGED <<coreVars, now, lockFrame>>

\* "with self.lock:" entered: the lock of the instance is taken
Acquire(t, n) ==
    /\ thr[t] = "idle"
    /\ lock[LockOf(n)] = "free"
    /\ lock' = [lock EXCEPT ![LockOf(n)] = t]
    /\ thr' = [thr EXCEPT ![t] = n]
    /\ UNCHANGED <<coreVars, now, lockFrame>>

\* the end of the "with self.lock:" block
Release(t) ==
    /\ lock' = [lock EXCEPT ![LockOf(thr[t])] = "free"]
    /\ thr' = [thr EXCEPT ![t] = "idle"]

LockedSet(t, key, value) ==
    /\ thr[t] # "idle"
    /\ CacheSet(thr[t], key, value, <<1>>)
    /\ Release(t)
    /\ UNCHANGED lockFrame

LockedGet(t, key) ==
    /\ thr[t] # "idle"
    /\ CacheGet(thr[t], key)
    /\ Release(t)
    /\ UNCHANGED lockFrame

LockedExists(t, key) ==
    /\ thr[t] # "idle"
    /\ CacheExists(thr[t], key)
    /\ Release(t)
    /\ UNCHANGED lockFrame

LockedDelete(t, key) ==
    /\ thr[t] # "idle"
    /\ CacheDelete(thr[t], key)
    /\ Release(t)
    /\ UNCHANGED lockFrame

LockedClear(t) ==
    /\ thr[t] # "idle"
    /\ CacheClear(thr[t])
    /\ Release(t)
    /\ UNCHANGED lockFrame

\* _cleanup_expired, run by the thread as the cleanup thread of the instance
LockedSweep(t) ==
    /\ thr[t] # "idle"
    /\ CacheSweep(thr[t])
    /\ Release(t)
    /\ UNCHANGED lockFrame

LockNext ==
    \/ \E t \in LockThreads, n \in LockInsts : nops < MaxLockOps /\ Acquire(t, n)
    \/ \E t \in LockThreads : LockedSet(t, "A", "v1")
    \/ \E t \in LockThreads : LockedGet(t, "A")
    \/ \E t \in LockThreads : LockedExists(t, "A")
    \/ \E t \in LockThreads : LockedDelete(t, "A")
    \/ \E t \in LockThreads : LockedClear(t)
    \/ \E t \in LockThreads : LockedSweep(t)
    \/ Tick

LockSpec == Init /\ [][LockNext]_vars

\* --------------------------------------------------------- ReaperSpec
\* ReaperSpec: the cleanup thread of one instance next to foreground calls;
\* a sweep may fault at any point of its removal loop.
reaperFrame == <<wpc, inconsistent, call, hist, lost, req, lock, thr>>

\* "time.sleep(60)" returns
ReaperWake ==
    /\ reaper.pc = "sleep"
    /\ reaper' = [reaper EXCEPT !.pc = "sweep"]
    /\ UNCHANGED <<coreVars, now, reaperFrame>>

\* "self._cleanup_expired()" runs to its end
ReaperSweep ==
    /\ reaper.pc = "sweep"
    /\ CacheSweep(Inst)
    /\ reaper' = ReaperAfterSweep(reaper, "ok")
    /\ UNCHANGED reaperFrame

\* "self._cleanup_expired()" faults after it removed the keys ks
ReaperSweepFault(ks) ==
    /\ reaper.pc = "sweep"
    /\ ks \subseteq {k \in DOMAIN caches[Inst].expiry_times :
                        now > caches[Inst].expiry_times[k]}
    /\ LET c == CleanupExpiredFault(caches[Inst], now, ks)
       IN  /\ caches' = [caches EXCEPT ![Inst] = c]
           /\ touched' = [touched EXCEPT ![Inst] = Resident(@, c.cache)]
           /\ written' = [written EXCEPT ![Inst] = Forget(@, c.cache)]
    /\ last' = [Call("sweep", Inst, None) EXCEPT !.branch = "fault"]
    /\ reaper' = ReaperAfterSweep(reaper, "fault")
    /\ UNCHANGED <<now, nops, reaperFrame>>

\* one iteration of the loop of _cleanup_worker, from its wake-up
ReaperStep == ReaperSweep \/ \E ks \in SUBSET Keys : ReaperSweepFault(ks)

ReaperNext ==
    \/ \E key \in Keys : nops < MaxReaperOps /\ Set(Inst, key, "v1", <<1>>)
    \/ \E key \in Keys : nops < MaxReaperOps /\ Get(Inst, key)
    \/ ReaperWake
    \/ ReaperSweep
    \/ \E ks \in SUBSET Keys : ReaperSweepFault(ks)
    \/ Tick

\* the cleanup thread is a daemon thread that the scheduler keeps running:
\* its sleep ends and its sweep is carried out.
ReaperSpec ==
    Init /\ [][ReaperNext]_vars /\ WF_vars(ReaperWake) /\ WF_vars(ReaperStep)

\* ----------------------------------------------------- ReaperLockSpec
\* ReaperLockSpec: the cleanup thread of one instance and two foreground
\* threads that call set, get, delete and clear on it, each taking the lock
\* of the instance for its call.

\* a cleanup thread that keeps the lock when its sweep is over
LockAfterSweepKept(l) == l

\* the end of the "with self.lock:" block of _cleanup_expired
LockAfterSweep(l) == [l EXCEPT ![LockOf(Inst)] = "free"]

\* "with self.lock:" of _cleanup_expired entered
ReaperAcquire ==
    /\ reaper.pc = "sweep"
    /\ lock[LockOf(Inst)] = "free"
    /\ lock' = [lock EXCEPT ![LockOf(Inst)] = "reaper"]
    /\ reaper' = [reaper EXCEPT !.pc = "locked"]
    /\ UNCHANGED <<coreVars, now, wpc, inconsistent, call, hist, lost, req, thr>>

\* the body of _cleanup_expired; the lock is released and the thread goes
\* back to "time.sleep(60)"
ReaperLockedSweep ==
    /\ reaper.pc = "locked"
    /\ CacheSweep(Inst)
    /\ lock' = LockAfterSweep(lock)
    /\ reaper' = ReaperAfterSweep(reaper, "ok")
    /\ UNCHANGED <<wpc, inconsistent, call, hist, lost, req, thr>>

ReaperLockNext ==
    \/ \E t \in LockThreads : nops < MaxReaperLockOps /\ Acquire(t, Inst)
    \/ \E t \in LockThreads : LockedSet(t, "A", "v1")
    \/ \E t \in LockThreads : LockedGet(t, "A")
    \/ \E t \in LockThreads : LockedDelete(t, "A")
    \/ \E t \in LockThreads : LockedClear(t)
    \/ ReaperWake
    \/ ReaperAcquire
    \/ ReaperLockedSweep
    \/ Tick

ReaperLockSpec == Init /\ [][ReaperLockNext]_vars

\* --------------------------------------------------------- WorkerSpec
\* WorkerSpec: test_concurrent_access.  The workers share the url cache; the
\* cache holds at least as many entries as the workers write keys (5000
\* against 500 in the test, the same number here).
WorkerInst == "url"

WorkerInit ==
    InitWith([NewCacheManager(0) EXCEPT
                 ![WorkerInst] = NewCache(NumWorkers * PairsPerWorker, DefaultTtl, 0)])

\* url_cache.set(key, f"value_{worker_id}_{i}", ttl=60)
WorkerSet(w) ==
    /\ wpc[w].at = "set"
    /\ CacheSet(WorkerInst, WorkerKey(w, wpc[w].i), WorkerValue(w, wpc[w].i),
                <<WorkerTtl>>)
    /\ wpc' = [wpc EXCEPT ![w].at = "get"]
    /\ UNCHANGED <<inconsistent, call, hist, lost, auxVars>>

\* value = url_cache.get(key); the comparison; the next iteration
WorkerGet(w) ==
    /\ wpc[w].at = "get"
    /\ CacheGet(WorkerInst, WorkerKey(w, wpc[w].i))
    /\ inconsistent' = (inconsistent \/ last'.ret # WorkerValue(w, wpc[w].i))
    /\ wpc' = [wpc EXCEPT ![w] = IF @.i + 1 < PairsPerWorker
                                 THEN [i |-> @.i + 1, at |-> "set"]
                                 ELSE [i |-> @.i, at |-> "done"]]
    /\ UNCHANGED <<call, hist, lost, auxVars>>

WorkerNext ==
    \/ \E w \in Workers : WorkerSet(w)
    \/ \E w \in Workers : WorkerGet(w)
    \/ Sweep(WorkerInst)
    \/ Tick

WorkerSpec == WorkerInit /\ [][WorkerNext]_vars

\* ----------------------------------------------------------- MemoSpec
\* MemoSpec: calls of decorated functions, one after the other, on the
\* analytics cache, while time passes and the cache may be cleared.
Active == Cardinality({t \in MemoThreads : call[t].pc # "idle"})

\* a finished call goes to the history
Commit(t, c) ==
    IF c.pc = "return"
    THEN /\ hist' = Append(hist, Summary(c))
         /\ call' = [call EXCEPT ![t] = Idle]
    ELSE /\ hist' = hist
         /\ call' = [call EXCEPT ![t] = c]

\* the entries that left the cache in this step
Removed == KeysOf(caches[MemoType].cache) \ KeysOf(caches'[MemoType].cache)

MemoBegin(t, kind, method, args) ==
    /\ call[t].pc = "idle"
    /\ Len(hist) + Active < MaxCalls
    /\ call' = [call EXCEPT ![t] = NewCall(kind, method, args)]
    /\ UNCHANGED <<coreVars, now, wpc, inconsistent, hist, lost, auxVars>>

\* get_cache or generate_cache_key raises: control passes to the except clause
MemoLookupFault(t) ==
    /\ call[t].pc = "lookup"
    /\ call' = [call EXCEPT ![t] = [@ EXCEPT !.pc = "except", !.faulted = TRUE]]
    /\ UNCHANGED <<coreVars, now, wpc, inconsistent, hist, lost, auxVars>>

\* cache.get
MemoGet(t) ==
    /\ call[t].pc = "lookup"
    /\ CacheGet(MemoType, call[t].key)
    /\ lost' = lost \cup Removed
    /\ Commit(t, [WrapperAfterGet(call[t], last'.ret) EXCEPT
                     !.disturbed = call[t].key \in lost'])
    /\ UNCHANGED <<wpc, inconsistent, auxVars>>

\* cache.get faults: LRUCache.get logs the error and returns the default
MemoGetFault(t) ==
    /\ call[t].pc = "lookup"
    /\ Commit(t, [WrapperAfterGet(call[t], None) EXCEPT !.faulted = TRUE])
    /\ UNCHANGED <<coreVars, now, wpc, inconsistent, lost, auxVars>>

MemoCompute(t, outcome) ==
    /\ call[t].pc = "compute"
    /\ outcome \in Outcomes(call[t].kind)
    /\ Commit(t, WrapperCompute(call[t], outcome))
    /\ UNCHANGED <<coreVars, now, wpc, inconsistent, lost, auxVars>>

\* cache.set(cache_key, result, ttl=ttl); return result
MemoSet(t) ==
    /\ call[t].pc = "store"
    /\ WrapperStores(call[t])
    /\ CacheSet(MemoType, call[t].key, call[t].result, <<MemoTtl>>)
    /\ lost' = (lost \cup Removed) \ {call[t].key}
    /\ Commit(t, Return([call[t] EXCEPT !.stored = TRUE], call[t].result, "unit"))
    /\ UNCHANGED <<wpc, inconsistent, auxVars>>

\* cache.set faults: LRUCache.set logs the error and returns False
MemoSetFault(t) ==
    /\ call[t].pc = "store"
    /\ WrapperStores(call[t])
    /\ Commit(t, Return([call[t] EXCEPT !.faulted = TRUE], call[t].result, "unit"))
    /\ UNCHANGED <<coreVars, now, wpc, inconsistent, lost, auxVars>>

\* cache_view with a response that is not a 200: returned, not stored
MemoSkipSet(t) ==
    /\ call[t].pc = "store"
    /\ ~WrapperStores(call[t])
    /\ Commit(t, Return(call[t], call[t].result, "unit"))
    /\ UNCHANGED <<coreVars, now, wpc, inconsistent, lost, auxVars>>

MemoExcept(t, outcome) ==
    /\ call[t].pc = "except"
    /\ outcome \in Outcomes(call[t].kind)
    /\ Commit(t, WrapperExcept(call[t], outcome))
    /\ UNCHANGED <<coreVars, now, wpc, inconsistent, lost, auxVars>>

\* somebody clears the cache the decorators use
MemoClear ==
    /\ Len(caches[MemoType].cache) > 0
    /\ CacheClear(MemoType)
    /\ lost' = lost \cup Removed
    /\ UNCHANGED <<wpc, inconsistent, call, hist, auxVars>>

MemoNext ==
    \/ \E t \in MemoThreads, r \in MemoRequests, args \in MemoArgs :
           MemoBegin(t, r[1], r[2], args)
    \/ \E t \in MemoThreads : MemoLookupFault(t)
    \/ \E t \in MemoThreads : MemoGet(t)
    \/ \E t \in MemoThreads : MemoGetFault(t)
    \/ \E t \in MemoThreads, outcome \in AllOutcomes : MemoCompute(t, outcome)
    \/ \E t \in MemoThreads : MemoSet(t)
    \/ \E t \in MemoThreads : MemoSetFault(t)
    \/ \E t \in MemoThreads : MemoSkipSet(t)
    \/ \E t \in MemoThreads, outcome \in AllOutcomes : MemoExcept(t, outcome)
    \/ MemoClear
    \/ Tick

MemoSpec == Init /\ [][MemoNext]_vars

\* ----------------------------------------------------------- HttpSpec
\* HttpSpec: requests served one after the other, each either by a plain view
\* behind CacheMiddleware and CacheInvalidationMiddleware or by a view
\* decorated with cache_view.
httpFrame == <<now, wpc, inconsistent, lost, auxVars>>

\* the version of the data of a user: the number of requests served so far
\* that changed them
DataVersion(user) ==
    Cardinality({i \in 1..Len(hist) :
        /\ hist[i].method \in MutatingMethods
        /\ hist[i].user = user
        /\ hist[i].viewed
        /\ hist[i].status = 200})

HttpBegin(t, kind, method, path, user, budget) ==
    /\ call[t].pc = "idle"
    /\ Len(hist) + Active < budget
    /\ call' = [call EXCEPT ![t] = NewRequest(kind, method, path, user)]
    /\ UNCHANGED <<coreVars, hist, httpFrame>>

\* process_request of the middlewares, or the wrapper of cache_view up to the
\* call of the view
HttpLookup(t) ==
    /\ call[t].pc = "request"
    /\ IF LooksUp(call[t])
       THEN /\ CacheGet(call[t].config.cache_type, RequestKey(call[t]))
            /\ call' = [call EXCEPT ![t] = AfterLookup(@, last'.ret)]
       ELSE /\ call' = [call EXCEPT ![t] = SkipLookup(@)]
            /\ UNCHANGED coreVars
    /\ UNCHANGED <<hist, httpFrame>>

\* the view: it answers with status 200 or 404; a request of a mutating
\* method answered with 200 has changed the data of its user
HttpView(t, status) ==
    /\ call[t].pc = "view"
    /\ call' = [call EXCEPT ![t] =
           AfterView(@, IF status = 200
                        THEN OkResponse(@.path, @.user,
                                 DataVersion(@.user)
                                     + IF @.method \in MutatingMethods THEN 1 ELSE 0)
                        ELSE "r404")]
    /\ UNCHANGED <<coreVars, hist, httpFrame>>

\* CacheMiddleware.process_response, or the wrapper of cache_view after the
\* view
HttpStore(t) ==
    /\ call[t].pc = "response"
    /\ IF StoresResponse(call[t])
       THEN /\ CacheSet(call[t].config.cache_type, call[t].cache_key,
                        call[t].response, <<call[t].config.ttl>>)
            /\ call' = [call EXCEPT ![t] = [@ EXCEPT !.pc = "invalidate",
                                                     !.wrote = TRUE]]
       ELSE /\ call' = [call EXCEPT ![t].pc = "invalidate"]
            /\ UNCHANGED coreVars
    /\ UNCHANGED <<hist, httpFrame>>

\* CacheInvalidationMiddleware.process_response; the response goes to the
\* client
HttpFinish(t) ==
    /\ call[t].pc = "invalidate"
    /\ IF Invalidates(call[t])
       THEN /\ caches' = InvalidateUserCache(caches, call[t].user)
            /\ last' = [Call("delete", "analytics", "user_analytics_" \o call[t].user)
                            EXCEPT !.ret = "False"]
            /\ touched' = [n \in CacheTypes |-> Resident(touched[n], caches'[n].cache)]
            /\ written' = [n \in CacheTypes |-> Forget(written[n], caches'[n].cache)]
            /\ nops' = nops + 4
       ELSE UNCHANGED coreVars
    /\ hist' = Append(hist, HttpSummary(call[t]))
    /\ call' = [call EXCEPT ![t] = Idle]
    /\ UNCHANGED httpFrame

HttpNext ==
    \/ \E t \in MemoThreads, kind \in HttpKinds, method \in HttpMethods,
          path \in HttpPaths, user \in HttpUsers :
           HttpBegin(t, kind, method, path, user, MaxRequests)
    \/ \E t \in MemoThreads : HttpLookup(t)
    \/ \E t \in MemoThreads, status \in {200, 404} : HttpView(t, status)
    \/ \E t \in MemoThreads : HttpStore(t)
    \/ \E t \in MemoThreads : HttpFinish(t)

HttpSpec == Init /\ [][HttpNext]_vars

\* ---------------------------------------------------------- StatsSpec
\* StatsSpec: statistics and the health endpoint.  At the start some of the
\* instances have served set('A', 'v1', ttl=1) and get('A'); then calls are
\* made on the url and the user cache.
StatsInsts == {"url", "user"}

\* an instance after set('A', 'v1', ttl=1); get('A')
WarmCache ==
    GetOp(SetOp(NewCache(Cap, DefaultTtl, 0), "A", "v1", <<1>>, 0).c, "A", None, 0).c

StatsInit ==
    \E warm \in SUBSET CacheTypes :
        /\ caches = [n \in CacheTypes |->
                        IF n \in warm THEN WarmCache ELSE NewCache(Cap, DefaultTtl, 0)]
        /\ touched = [n \in CacheTypes |-> IF n \in warm THEN <<"A">> ELSE <<>>]
        /\ written = [n \in CacheTypes |->
                         IF n \in warm
                         THEN DictPut(EmptyDict, "A",
                                      [at |-> 0, ttl |-> <<1>>, value |-> "v1"])
                         ELSE EmptyDict]
        /\ now = 0
        /\ last = NoCall
        /\ nops = 0
        /\ wpc = [w \in Workers |-> [i |-> 0, at |-> "set"]]
        /\ inconsistent = FALSE
        /\ call = [t \in MemoThreads |-> Idle]
        /\ hist = <<>>
        /\ lost = {}
        /\ req = NoRequest
        /\ lock = [l \in CacheTypes |-> "free"]
        /\ thr = [t \in LockThreads |-> "idle"]
        /\ reaper = NewReaper

\* GET /api/cache/health/: get_stats of the five instances, the response
HealthEndpoint ==
    /\ req' = HealthView(caches, now)
    /\ caches' = [n \in CacheTypes |-> GetStatsOp(caches[n], now).c]
    /\ last' = [Call("stats", StatsOrder[Len(StatsOrder)], None) EXCEPT !.ret = "dict"]
    /\ nops' = nops + Len(StatsOrder)
    /\ UNCHANGED <<now, touched, written, regFrame>>

StatsNext ==
    \/ \E n \in StatsInsts, key \in Keys :
           nops < MaxStatsOps /\ Set(n, key, "v1", <<1>>)
    \/ \E n \in StatsInsts, key \in {"A", "B"} : nops < MaxStatsOps /\ Get(n, key)
    \/ \E n \in StatsInsts : nops <= MaxStatsOps /\ Stats(n)
    \/ nops <= MaxStatsOps /\ HealthEndpoint

StatsSpec == StatsInit /\ [][StatsNext]_vars

\* ------------------------------------------------------------- MwSpec
\* MwSpec: authenticated users fetch and change their profile through the
\* two middlewares.
MwNext ==
    \/ \E t \in MemoThreads, method \in HttpMethods, user \in HttpUsers \ {""} :
           HttpBegin(t, "mw", method, ProfilePath, user, MaxMwRequests)
    \/ \E t \in MemoThreads : HttpLookup(t)
    \/ \E t \in MemoThreads, status \in {200, 404} : HttpView(t, status)
    \/ \E t \in MemoThreads : HttpStore(t)
    \/ \E t \in MemoThreads : HttpFinish(t)

MwSpec == Init /\ [][MwNext]_vars

\* ------------------------------------------------------------ KeySpec
\* KeySpec: cache_result computes the keys of calls of decorated functions.
KeyCall(func, args, kwargs, key_prefix) ==
    /\ Len(hist) < MaxKeyCalls
    /\ hist' = Append(hist, [func |-> func, args |-> args, kwargs |-> kwargs,
                             key_prefix |-> key_prefix,
                             key |-> CacheResultKey(func, args, kwargs, key_prefix)])
    /\ UNCHANGED <<coreVars, now, wpc, inconsistent, call, lost, auxVars>>

KeyNext ==
    \E func \in KeyFuncs, args \in KeyArgs, kwargs \in KeyKwargs,
       key_prefix \in KeyPrefixes : KeyCall(func, args, kwargs, key_prefix)

KeySpec == Init /\ [][KeyNext]_vars

\* ============================================================== claims
\* a step that is a call of the named method on the instance under test
IsCall(op) == last'.op = op /\ last'.inst = Inst /\ nops' = nops + 1

EntriesFor(od, k) == Cardinality({i \in 1..Len(od) : od[i].key = k})

\* C1: the number of resident entries of an instance never exceeds its
\* capacity, whatever calls and sweeps were performed.
C1_SizeWithinCapacity ==
    \A n \in CacheTypes : Len(caches[n].cache) <= caches[n].max_size

\* a set into a full instance has evicted an entry and the instance is full again
C1_Witness ==
    /\ last.op = "set"
    /\ caches[Inst].stats.evictions >= 1
    /\ Len(caches[Inst].cache) = caches[Inst].max_size

\* C2: a set of a new key into a full instance evicts exactly the resident
\* entry whose latest set or successful get is the oldest, and nothing else.
C2_EvictsLeastRecentlyUsed ==
    [][(/\ IsCall("set")
        /\ ~HasKey(caches[Inst].cache, last'.key)
        /\ Len(caches[Inst].cache) >= caches[Inst].max_size)
       => /\ KeysOf(caches'[Inst].cache) =
               (KeysOf(caches[Inst].cache) \ {touched[Inst][1]}) \cup {last'.key}
          /\ caches'[Inst].stats.evictions = caches[Inst].stats.evictions + 1]_vars

\* set A, set B, get A, set C with capacity 2: B was evicted, A and C remain
C2_Witness ==
    /\ last.op = "set" /\ last.key = "C"
    /\ nops = 4
    /\ caches[Inst].stats.sets = 3
    /\ caches[Inst].stats.hits = 1
    /\ caches[Inst].stats.evictions = 1
    /\ Len(caches[Inst].cache) = 2
    /\ caches[Inst].cache[1].key = "A"
    /\ caches[Inst].cache[2].key = "C"

\* C3: a key set at time s with ttl t and still written is returned by get at
\* every time before s+t, and get returns the default at every time after s+t.
C3_TtlBoundsRetrieval ==
    [][\A k \in Keys :
         (/\ IsCall("get") /\ last'.key = k
          /\ k \in DOMAIN written[Inst]
          /\ Len(written[Inst][k].ttl) = 1)
         => LET w == written[Inst][k]
            IN  /\ (now < w.at + w.ttl[1] => last'.ret = w.value)
                /\ (now > w.at + w.ttl[1] => last'.ret = None)]_vars

\* C4: every get does exactly one of: absent key, misses+1 only, default;
\* expired key, entry removed, expirations+1 and misses+1, default;
\* valid key, hits+1 only, entry moved to the end, stored value.
C4_GetCounts ==
    [][\A k \in Keys :
         (IsCall("get") /\ last'.key = k)
         => LET c == caches[Inst]
                d == caches'[Inst]
                present == HasKey(c.cache, k)
                expired == present /\ k \in DOMAIN c.expiry_times
                                   /\ now > c.expiry_times[k]
            IN  /\ ~present =>
                      /\ d = [c EXCEPT !.stats.misses = @ + 1]
                      /\ last'.ret = None
                /\ expired =>
                      /\ d.stats = [c.stats EXCEPT !.misses = @ + 1,
                                                   !.expirations = @ + 1]
                      /\ d.cache = DelKey(c.cache, k)
                      /\ d.expiry_times = DictDel(c.expiry_times, k)
                      /\ last'.ret = None
                /\ (present /\ ~expired) =>
                      /\ d.stats = [c.stats EXCEPT !.hits = @ + 1]
                      /\ d.cache = Append(DelKey(c.cache, k),
                                          [key |-> k, value |-> ValueOf(c.cache, k)])
                      /\ d.expiry_times = c.expiry_times
                      /\ last'.ret = ValueOf(c.cache, k)]_vars

\* a get has found its key expired
C4_Witness ==
    /\ last.op = "get" /\ last.branch = "expired"
    /\ caches[Inst].stats.expirations >= 1
    /\ caches[Inst].stats.misses >= 1

\* C9 as stated: after set(k, v1) and set(k, v2) there is one entry for k,
\* holding v2, at the end; the size is one more than before the two calls;
\* each call adds one to sets.
C9_ResetGrowsByOne ==
    [][(IsCall("set") /\ last.op = "set" /\ last.inst = Inst /\ last.key = last'.key)
       => LET d == caches'[Inst]
          IN  /\ EntriesFor(d.cache, last'.key) = 1
              /\ d.cache[Len(d.cache)] = [key |-> last'.key, value |-> last'.value]
              /\ Len(d.cache) = last.size + 1
              /\ d.stats.sets = caches[Inst].stats.sets + 1]_vars

\* C9 amended: after set(k, v1) and set(k, v2) there is one entry for k,
\* holding v2, at the end; the size is at most one more than before the two
\* calls, exactly one more when k was not resident and the instance was
\* below capacity before the first call and unchanged otherwise; the second
\* call does not change the size; every set adds one to sets.
C9_ResetKeepsOneEntry ==
    [][/\ (IsCall("set") /\ last.op = "set" /\ last.inst = Inst /\ last.key = last'.key)
          => LET c == caches[Inst]
                 d == caches'[Inst]
                 k == last'.key
             IN  /\ EntriesFor(d.cache, k) = 1
                 /\ d.cache[Len(d.cache)] = [key |-> k, value |-> last'.value]
                 /\ Len(d.cache) = Len(c.cache)
                 /\ Len(d.cache) <= last.size + 1
                 /\ Len(d.cache) \in {last.size, last.size + 1}
                 /\ (Len(d.cache) = last.size + 1) <=> (last.size < c.max_size
                                                       /\ last.ret = "True"
                                                       /\ last.branch = "new")
       /\ IsCall("set") => caches'[Inst].stats.sets = caches[Inst].stats.sets + 1]_vars

\* the second of two sets of one key has replaced v1 by v2
C9_Witness ==
    /\ last.op = "set" /\ last.value = "v2"
    /\ caches[Inst].stats.sets = 2
    /\ caches[Inst].cache = <<[key |-> last.key, value |-> "v2"]>>
    /\ caches[Inst].stats.evictions = 0

\* C10: clear on an instance and clear_all on the registry remove every entry
\* and every expiry record of the affected instances and leave the counters
\* of every instance as they were.
C10_ClearKeepsCounters ==
    [][/\ (last'.op = "clear" /\ nops' = nops + 1)
          => /\ caches'[last'.inst].cache = <<>>
             /\ DOMAIN caches'[last'.inst].expiry_times = {}
             /\ \A n \in CacheTypes : caches'[n].stats = caches[n].stats
       /\ (last'.op = "clear_all" /\ nops' = nops + 1)
          => \A n \in CacheTypes :
                /\ caches'[n].cache = <<>>
                /\ DOMAIN caches'[n].expiry_times = {}
                /\ caches'[n].stats = caches[n].stats]_vars

\* clear_all has emptied two instances that had been written to
C10_Witness ==
    /\ last.op = "clear_all"
    /\ \A n \in CacheTypes : Len(caches[n].cache) = 0
    /\ \E n, m \in CacheTypes :
          /\ n # m
          /\ caches[n].stats.sets = 1 /\ caches[m].stats.sets = 1
          /\ caches[n].stats.deletes = 0 /\ caches[m].stats.deletes = 0
          /\ caches[n].stats.expirations = 0 /\ caches[m].stats.expirations = 0

\* C5: workers that set and then get pairwise distinct keys, no more keys than
\* the capacity and no ttl elapsing: every get returns the worker's value,
\* after completion every key is retrievable with its worker's value, and
\* the size is within the capacity.
C5_WorkersReadTheirWrites ==
    /\ ~inconsistent
    /\ Len(caches[WorkerInst].cache) <= caches[WorkerInst].max_size
    /\ (\A w \in Workers : wpc[w].at = "done")
          => \A w \in Workers, i \in 0..(PairsPerWorker - 1) :
                GetOp(caches[WorkerInst], WorkerKey(w, i), None, now).ret
                   = WorkerValue(w, i)

\* all workers have completed and the cache is filled to its capacity
C5_Witness ==
    /\ \A w \in Workers : wpc[w].at = "done"
    /\ Len(caches[WorkerInst].cache) = NumWorkers * PairsPerWorker
    /\ caches[WorkerInst].stats.hits = NumWorkers * PairsPerWorker

\* C6: of two successive cache_result calls with identical arguments, with no
\* fault, expiry, eviction or clear, whatever value the function returns, the
\* second does not invoke the function and returns the result of the first,
\* which invoked it at most once; a call with arguments not seen before
\* invokes it.
C6_SecondCallNotInvoked ==
    /\ \A i \in 1..(Len(hist) - 1) :
          LET p == hist[i]
              q == hist[i + 1]
          IN  (/\ p.kind = "result" /\ q.kind = "result"
               /\ p.args = q.args
               /\ ~p.faulted /\ ~q.faulted
               /\ ~p.unit_failed
               /\ ~q.disturbed)
              => /\ q.inv = 0
                 /\ p.inv <= 1
                 /\ ~q.raised /\ q.ret = p.ret
    /\ \A j \in 1..Len(hist) :
          (/\ hist[j].kind = "result"
           /\ ~hist[j].faulted
           /\ \A i \in 1..(j - 1) :
                 hist[i].kind # "result" \/ hist[i].args # hist[j].args)
          => hist[j].inv >= 1

\* C7: a call that misses the cache invokes the wrapped unit exactly once,
\* also when the unit raises: the exception then reaches the caller after
\* that one invocation and nothing is stored.
C7_MissInvokesOnce ==
    \A i \in 1..Len(hist) :
       (hist[i].miss /\ ~hist[i].faulted)
       => /\ hist[i].inv = 1
          /\ hist[i].unit_failed
                => (hist[i].raised /\ hist[i].origin = "unit_error" /\ ~hist[i].stored)

C11_ExistsOnlyRemovesExpired ==
    [][\A k \in Keys :
         (IsCall("exists") /\ last'.key = k)
         => LET c == caches[Inst]
                d == caches'[Inst]
                present == HasKey(c.cache, k)
                expired == present /\ k \in DOMAIN c.expiry_times
                                   /\ now > c.expiry_times[k]
            IN  /\ (last'.ret = "True") <=> (present /\ ~expired)
                /\ last'.ret \in {"True", "False"}
                /\ d.stats.hits = c.stats.hits
                /\ d.stats.misses = c.stats.misses
                /\ expired =>
                      /\ d.cache = DelKey(c.cache, k)
                      /\ d.expiry_times = DictDel(c.expiry_times, k)
                      /\ d.stats = [c.stats EXCEPT !.expirations = @ + 1]
                /\ ~expired => d = c]_vars

\* exists has found its key expired and removed it; another entry remains
C11_Witness ==
    /\ last.op = "exists" /\ last.ret = "False"
    /\ last.size = 2
    /\ Len(caches[Inst].cache) = 1
    /\ caches[Inst].stats.expirations = 1
    /\ caches[Inst].stats.misses = 0

\* C12: delete(key) of a resident key removes the entry and its expiry
\* record, adds one to deletes and returns true; delete of an absent key
\* returns false and changes nothing of the instance.
C12_DeleteRemovesEntryAndExpiry ==
    [][\A k \in Keys :
         (IsCall("delete") /\ last'.key = k)
         => LET c == caches[Inst]
                d == caches'[Inst]
            IN  IF HasKey(c.cache, k)
                THEN /\ last'.ret = "True"
                     /\ d.cache = DelKey(c.cache, k)
                     /\ k \notin DOMAIN d.expiry_times
                     /\ d.expiry_times = DictDel(c.expiry_times, k)
                     /\ d.stats = [c.stats EXCEPT !.deletes = @ + 1]
                ELSE /\ last'.ret = "False"
                     /\ d = c]_vars

\* a delete has removed one of two resident entries
C12_Witness ==
    /\ last.op = "delete" /\ last.ret = "True"
    /\ last.size = 2
    /\ Len(caches[Inst].cache) = 1
    /\ DOMAIN caches[Inst].expiry_times = KeysOf(caches[Inst].cache)
    /\ caches[Inst].stats.deletes = 1

\* C13: no step of set, get, exists, delete, clear, get_stats or a sweep
\* makes any of the counters hits, misses, sets, deletes, evictions,
\* expirations of any instance smaller.
C13_CountersNeverDecrease ==
    [][\A n \in CacheTypes : \A counter \in Counters :
          caches'[n].stats[counter] >= caches[n].stats[counter]]_vars

\* a clear has emptied an instance whose counters had been moved by a set
\* and a get
C13_Witness ==
    /\ last.op = "clear"
    /\ Len(caches[Inst].cache) = 0
    /\ caches[Inst].stats.sets = 1
    /\ caches[Inst].stats.hits = 1

\* C14: a set records as the expiry of its key the current time plus the ttl
\* the caller gave, whatever its value (0 included), and the current time
\* plus default_ttl only when the caller gave none.
C14_ExpiryIsNowPlusGivenTtl ==
    [][\A k \in Keys :
         (IsCall("set") /\ last'.key = k /\ last'.ret = "True")
         => /\ k \in DOMAIN caches'[Inst].expiry_times
            /\ caches'[Inst].expiry_times[k] =
                  now + (IF Len(last'.ttl) = 0
                         THEN caches[Inst].default_ttl
                         ELSE last'.ttl[1])]_vars

\* C15: a set that succeeds returns true; a set that faults returns false and
\* leaves the entries, the expiry records, the order and the counters of the
\* instance as they were before the call.
C15_FaultySetChangesNothing ==
    [][IsCall("set")
       => /\ last'.ret \in {"True", "False"}
          /\ last'.branch \in {"new", "replace"} => last'.ret = "True"
          /\ last'.ret = "False" => caches'[Inst] = caches[Inst]]_vars

\* C16: get_cache(name) returns the instance registered under name for url,
\* user, analytics, session and general and the general instance for every
\* other name, without raising; the five instances are different objects: a
\* call on the instance returned for one name changes the instance of no
\* other name.
C16_GetCacheResolvesName ==
    [][(req'.ep = "get_cache" /\ nops' = nops + 1)
       => LET want == IF req'.name \in CacheTypes THEN req'.name ELSE "general"
          IN  /\ req'.inst = want
              /\ last'.inst = want
              /\ Cardinality({GetCacheCall(name).inst : name \in CacheTypes}) = 5
              /\ \A m \in CacheTypes \ {want} : caches'[m] = caches[m]]_vars

\* a set through get_cache of an unknown name has written the general
\* instance, after a set through get_cache('url') had written the url instance
C16_Witness ==
    /\ req.ep = "get_cache" /\ req.name = "other" /\ req.inst = "general"
    /\ last.op = "set"
    /\ Len(caches["general"].cache) = 1
    /\ Len(caches["url"].cache) = 1
    /\ Len(caches["user"].cache) = 0

\* C17: no call that names an unknown cache is answered with an error: the
\* unknown name is resolved to the general instance and the call proceeds
\* (get_cache, the clear endpoint, the invalidate endpoint with a pattern,
\* the keys endpoint).
C17_UnknownNameFallsBack ==
    (/\ req.ep \in {"get_cache", "clear", "keys", "invalidate"}
     /\ req.name \notin CacheTypes \cup {""}
     /\ ~(req.ep = "invalidate" /\ req.pattern = ""))
    => /\ req.status \in {0, 200}
       /\ req.inst = "general"

\* C18: a call of set, get, exists, delete, clear or a sweep on one instance
\* leaves every other instance as it was, and a thread can always enter an
\* instance that no thread is in, whatever locks of other instances are held.
C18_InstancesAreIndependent ==
    /\ [](\A n \in LockInsts :
            (\A u \in LockThreads : thr[u] # n)
            => \A t \in LockThreads : thr[t] = "idle" => ENABLED Acquire(t, n))
    /\ [][\A t \in LockThreads :
            (thr[t] # "idle" /\ thr'[t] = "idle")
            => \A m \in CacheTypes \ {thr[t]} : caches'[m] = caches[m]]_vars

\* both threads are inside an instance at once, one in url and one in user,
\* after a set on each instance
C18_Witness ==
    /\ thr["t1"] = "url" /\ thr["t2"] = "user"
    /\ lock["url"] = "t1" /\ lock["user"] = "t2"
    /\ Len(caches["url"].cache) = 1
    /\ Len(caches["user"].cache) = 1

\* a step that is a sweep of the instance under test
IsSweep == last'.op = "sweep" /\ last'.inst = Inst /\ nops' = nops /\ now' = now

\* what a sweep that removes the keys "gone" does to the instance
SweepRemoves(gone) ==
    LET c == caches[Inst]
        d == caches'[Inst]
    IN  /\ d.cache = SelectSeq(c.cache, LAMBDA e : e.key \notin gone)
        /\ d.expiry_times = [k \in (DOMAIN c.expiry_times) \ gone |-> c.expiry_times[k]]
        /\ d.stats = [c.stats EXCEPT !.expirations = @ + Cardinality(gone),
                                      !.last_cleanup = now]

\* C19 as stated: a sweep removes from the entries and from the expiry
\* records exactly the keys whose expiry is at or before the time of the
\* sweep, counts one expiration per removed key and sets last_cleanup to
\* the time of the sweep.
C19_SweepRemovesDue ==
    [][IsSweep
       => SweepRemoves({k \in DOMAIN caches[Inst].expiry_times :
                           caches[Inst].expiry_times[k] <= now})]_vars

\* C19 amended: a sweep removes from the entries and from the expiry records
\* exactly the keys whose expiry is before the time of the sweep (a key
\* whose expiry equals that time stays), counts one expiration per removed
\* key and sets last_cleanup to the time of the sweep.
C19_SweepRemovesOverdue ==
    [][IsSweep
       => SweepRemoves({k \in DOMAIN caches[Inst].expiry_times :
                           caches[Inst].expiry_times[k] < now})]_vars

\* a sweep has removed an overdue entry and kept the entry whose expiry is
\* the time of the sweep
C19_Witness ==
    /\ last.op = "sweep"
    /\ caches[Inst].stats.last_cleanup = now
    /\ last.size = Len(caches[Inst].cache) + 1
    /\ caches[Inst].stats.expirations = 1
    /\ \E k \in DOMAIN caches[Inst].expiry_times : caches[Inst].expiry_times[k] = now

\* C20: a fault inside a sweep does not end the cleanup thread: the thread
\* never stops and after every sweep, faulty or not, another sweep is
\* eventually performed.
C20_ReaperSurvivesFaults ==
    /\ [](reaper.pc # "stopped")
    /\ \A b \in {0, 1} : (reaper.n = b) ~> (reaper.n # b)

\* a sweep has been carried out to its end after an earlier sweep faulted
\* half-way: an overdue entry is gone, another was removed by the faulty sweep
C20_Witness ==
    /\ reaper.faulted /\ reaper.outcome = "ok" /\ reaper.pc = "sleep"
    /\ last.op = "sweep" /\ last.branch # "fault"
    /\ caches[Inst].stats.expirations = 2
    /\ caches[Inst].stats.misses = 0

\* the instances whose hit, miss or set counter or whose entries a step changes
ReadOrWritten ==
    {n \in CacheTypes :
        \/ caches'[n].stats.hits # caches[n].stats.hits
        \/ caches'[n].stats.misses # caches[n].stats.misses
        \/ caches'[n].stats.sets # caches[n].stats.sets
        \/ caches'[n].cache # caches[n].cache}

\* C21: cache_view and CacheMiddleware write a response to the cache only for
\* a GET request that missed and whose response has status 200; a request of
\* another method neither reads nor writes the cache; a response of another
\* status is the one the view produced, it goes to the caller and is not stored.
C21_StoresOnlyGetMissWith200 ==
    [][\A t \in MemoThreads :
         LET c == call[t]
         IN  c.pc # "idle" =>
               /\ (\E n \in CacheTypes : caches'[n].stats.sets # caches[n].stats.sets)
                     => /\ c.method = "GET"
                        /\ c.miss
                        /\ StatusCode(c.response) = 200
                        /\ \E n \in CacheTypes :
                               /\ HasKey(caches'[n].cache, c.cache_key)
                               /\ ValueOf(caches'[n].cache, c.cache_key) = c.response
               /\ c.method # "GET" => ReadOrWritten = {}
               /\ (hist' # hist /\ StatusCode(c.response) # 200)
                     => /\ c.viewed
                        /\ ~c.from_cache
                        /\ hist'[Len(hist')].response = c.response
                        /\ \A n \in CacheTypes : \A i \in 1..Len(caches'[n].cache) :
                               StatusCode(caches'[n].cache[i].value) = 200]_vars

\* a GET behind the middlewares missed and its 200 was stored, and a GET of a
\* decorated view missed and its 404 was returned without being stored
C21_Witness ==
    \E i, j \in 1..Len(hist) :
        /\ hist[i].kind = "mw" /\ hist[i].method = "GET" /\ hist[i].miss
        /\ hist[i].status = 200 /\ hist[i].wrote
        /\ hist[j].kind = "view" /\ hist[j].method = "GET" /\ hist[j].miss
        /\ hist[j].status = 404 /\ ~hist[j].wrote

\* the request that stored the entry a request was answered from: the latest
\* earlier one that wrote the same key of the same instance
WriterOf(i) ==
    LET writers == {j \in 1..(i - 1) :
                       /\ hist[j].wrote
                       /\ hist[j].cache_key = hist[i].cache_key
                       /\ hist[j].config.cache_type = hist[i].config.cache_type}
    IN  CHOOSE j \in writers : \A k \in writers : k <= j

\* C22: with vary_by_user two GET requests that differ only in the
\* authenticated user have different keys, so a request of an authenticated
\* user is never answered with an entry stored for a request of another user;
\* without vary_by_user the key is the same for every user, and the key of an
\* anonymous request is the key computed without vary_by_user.
C22_UsersDoNotShareResponses ==
    /\ \A i, j \in 1..Len(hist) :
          (/\ hist[i].read /\ hist[j].read
           /\ hist[i].kind = hist[j].kind /\ hist[i].path = hist[j].path
           /\ hist[i].user # hist[j].user)
              => IF hist[i].config.vary_by_user /\ hist[i].user # "" /\ hist[j].user # ""
                 THEN hist[i].cache_key # hist[j].cache_key
                 ELSE hist[i].config.vary_by_user
                         \/ hist[i].cache_key = hist[j].cache_key
    /\ \A i \in 1..Len(hist) :
          (hist[i].read /\ hist[i].user = "")
              => hist[i].cache_key =
                     RequestKey([NewRequest(hist[i].kind, "GET", hist[i].path, "")
                                    EXCEPT !.config.vary_by_user = FALSE])
    /\ \A i \in 1..Len(hist) :
          (hist[i].from_cache /\ hist[i].config.vary_by_user /\ hist[i].user # "")
              => /\ hist[WriterOf(i)].user = hist[i].user
                 /\ hist[WriterOf(i)].response = hist[i].response

\* user 1 fetched the profile through the middleware and the response was
\* stored; the same request of user 2 then missed and got the response of the
\* view for user 2
C22_Witness ==
    /\ Len(hist) = 2
    /\ hist[1].kind = "mw" /\ hist[1].path = ProfilePath /\ hist[1].user = "1"
    /\ hist[1].wrote
    /\ hist[2].kind = "mw" /\ hist[2].path = ProfilePath /\ hist[2].user = "2"
    /\ hist[2].method = "GET" /\ hist[2].miss /\ ~hist[2].from_cache
    /\ hist[2].response = OkResponse(ProfilePath, "2", 0)
    /\ HasKey(caches["user"].cache, hist[1].cache_key)

\* the keyword arguments of a call as a set of name/value pairs
KwSet(kwargs) == {kwargs[i] : i \in 1..Len(kwargs)}

\* C23: the key of a call is a function of the function called, the
\* positional arguments, the set of keyword arguments and the prefix: two
\* calls that agree in all four have the same key whatever the order of the
\* keyword arguments, two calls that differ in one of them have different keys.
C23_KeyIdentifiesCall ==
    \A i, j \in 1..Len(hist) :
        (hist[i].key = hist[j].key)
            <=> /\ hist[i].func = hist[j].func
                /\ hist[i].args = hist[j].args
                /\ KwSet(hist[i].kwargs) = KwSet(hist[j].kwargs)
                /\ hist[i].key_prefix = hist[j].key_prefix

\* C24: once a request of a mutating method by an authenticated user on a
\* path of the invalidation patterns was answered with 200, 201 or 204, no
\* later GET of that user on a cached path is answered from an entry that
\* CacheMiddleware stored before that request.
C24_NoStaleResponseAfterMutation ==
    \A i, j \in 1..Len(hist) :
        (/\ i < j
         /\ hist[i].kind = "mw" /\ hist[j].kind = "mw"
         /\ hist[i].method \in MutatingMethods
         /\ ShouldInvalidate(hist[i].method, hist[i].path)
         /\ hist[i].status \in {200, 201, 204}
         /\ hist[i].user # "" /\ hist[j].user = hist[i].user
         /\ hist[j].method = "GET" /\ hist[j].config # NoConfig
         /\ hist[j].from_cache)
            => WriterOf(j) > i

LowHitRate(c) == HitRate(c.stats.hits, c.stats.misses) < 1000

\* the instance holds more entries than 90 percent of its capacity
NearlyFull(c) == 10 * Cardinality(KeysOf(c.cache)) > 9 * c.max_size

\* the issues a response lists for an instance
IssuesFor(response, n, issue) ==
    {i \in 1..Len(response.issues) :
        /\ response.issues[i].cache_name = n \o "_cache"
        /\ response.issues[i].issue = issue}

\* C26: the health endpoint answers "warning" if some instance has a hit rate
\* below 10 or more entries than 90% of max_size, and "healthy" if none has;
\* the issues are exactly one per instance and threshold that is violated.
C26_HealthStatus ==
    [][(req'.ep = "health" /\ nops' # nops)
          => /\ req'.health_status =
                    IF \E n \in CacheTypes : LowHitRate(caches[n]) \/ NearlyFull(caches[n])
                    THEN "warning" ELSE "healthy"
             /\ \A n \in CacheTypes :
                    /\ Cardinality(IssuesFor(req', n, "Low hit rate"))
                           = IF LowHitRate(caches[n]) THEN 1 ELSE 0
                    /\ Cardinality(IssuesFor(req', n, "High memory usage"))
                           = IF NearlyFull(caches[n]) THEN 1 ELSE 0
             /\ Len(req'.issues)
                    = Cardinality({n \in CacheTypes : LowHitRate(caches[n])})
                        + Cardinality({n \in CacheTypes : NearlyFull(caches[n])})
             /\ caches' = caches]_vars

\* every instance has a hit rate of 100 and the url cache is full: the one
\* issue is the size of the url cache
C26_Witness ==
    /\ req.ep = "health" /\ req.health_status = "warning"
    /\ req.issues = <<[cache_name |-> "url_cache", issue |-> "High memory usage"]>>
    /\ Len(caches["url"].cache) = Cap
    /\ \A n \in CacheTypes : caches[n].stats.hits = 1 /\ caches[n].stats.misses = 0

\* a step that is one call of get_stats
IsSnapshot == last'.op = "stats" /\ nops' = nops + 1

\* what the snapshot of the step reports
Snapshot == GetStatsOp(caches[last'.inst], now).ret

\* C27 as stated: a snapshot reports the number of resident entries as
\* current_size, the capacity as max_size and hits/(hits+misses)*100 as
\* hit_rate (0 when there was no get); it changes no entry and no counter.
C27_SnapshotExact ==
    [][IsSnapshot =>
          LET c == caches[last'.inst]
              total == c.stats.hits + c.stats.misses
          IN  /\ Snapshot.current_size = Cardinality(KeysOf(c.cache))
              /\ Snapshot.max_size = Cap
              /\ IF total = 0
                 THEN Snapshot.hit_rate = 0
                 ELSE /\ Snapshot.hit_rate * total = c.stats.hits * 100 * 100
                      /\ Snapshot.hit_rate >= 0 /\ Snapshot.hit_rate <= 100 * 100
              /\ caches' = caches]_vars

\* C27: as above, the hit rate being hits/(hits+misses)*100 rounded to two
\* decimals (at most 0.005 away from the quotient).
C27_SnapshotRounded ==
    [][IsSnapshot =>
          LET c == caches[last'.inst]
              total == c.stats.hits + c.stats.misses
              diff == Snapshot.hit_rate * total - c.stats.hits * 100 * 100
          IN  /\ Snapshot.current_size = Cardinality(KeysOf(c.cache))
              /\ Snapshot.max_size = Cap
              /\ IF total = 0
                 THEN Snapshot.hit_rate = 0
                 ELSE /\ 2 * diff <= total /\ 2 * diff >= 0 - total
                      /\ Snapshot.hit_rate >= 0 /\ Snapshot.hit_rate <= 100 * 100
              /\ caches' = caches]_vars

\* a snapshot of the url cache after two hits and one miss: 66.67
C27_Witness ==
    /\ last.op = "stats" /\ last.inst = "url"
    /\ caches["url"].stats.hits = 2 /\ caches["url"].stats.misses = 1
    /\ GetStatsOp(caches["url"], now).ret.hit_rate = 6667
    /\ last.size = Len(caches["url"].cache)

\* C28: between the calls, every instance has the same keys in its entry
\* store (self.cache) and in its expiry index (self.expiry_times).
C28_EntryAndExpiryKeysAgree ==
    \A n \in CacheTypes : KeysOf(caches[n].cache) = DOMAIN caches[n].expiry_times

\* the threads inside "with self.lock:" of the instance
Inside(n) == {t \in LockThreads : thr[t] = n}

\* C29: at most one thread is inside the critical section of an instance,
\* and it is the one that holds the lock of the instance; an instance changes
\* only in the step in which the thread inside it completes its call, so no
\* call sees the instance between the steps of another call and the
\* instance goes through the states of the calls made one after the other.
C29_CallsAreMutuallyExclusive ==
    [][/\ \A n \in LockInsts :
             /\ Cardinality(Inside(n)') <= 1
             /\ \A t \in Inside(n)' : lock'[LockOf(n)] = t
       /\ \A n \in CacheTypes :
             caches'[n] # caches[n]
                 => \E t \in LockThreads :
                        /\ Inside(n) = {t}
                        /\ lock[LockOf(n)] = t
                        /\ thr'[t] = "idle"
                        /\ \A m \in CacheTypes \ {n} : caches'[m] = caches[m]]_vars

\* thread t1 is inside the url cache that has served a call before, and
\* thread t2 cannot enter it
C29_Witness ==
    /\ thr["t1"] = "url" /\ lock["url"] = "t1" /\ thr["t2"] = "idle"
    /\ last.inst = "url" /\ nops >= 1 /\ nops < MaxLockOps
    /\ ~ENABLED Acquire("t2", "url")
    /\ ENABLED Acquire("t2", "user")

\* C30: the cleanup thread holds the lock of its instance only inside
\* _cleanup_expired; while it sleeps the lock is not its own, a foreground
\* thread can enter the instance unless another foreground thread is
\* inside, and a foreground thread that is inside can carry out and complete
\* its set, get, delete or clear.
C30_ReaperSleepsWithoutLock ==
    /\ lock[LockOf(Inst)] = "reaper" => reaper.pc = "locked"
    /\ reaper.pc = "sleep" =>
          \A t \in LockThreads :
              /\ (thr[t] = "idle" /\ Inside(Inst) = {}) => ENABLED Acquire(t, Inst)
              /\ thr[t] = Inst =>
                    /\ lock[LockOf(Inst)] = t
                    /\ ENABLED LockedSet(t, "A", "v1")
                    /\ ENABLED LockedGet(t, "A")
                    /\ ENABLED LockedDelete(t, "A")
                    /\ ENABLED LockedClear(t)

\* the cleanup thread has swept the instance, removing an entry, and sleeps
\* again; the lock is free and a foreground thread can take it
C30_Witness ==
    /\ reaper.pc = "sleep" /\ reaper.n = 1
    /\ last.op = "sweep" /\ last.size = 1 /\ caches[Inst].cache = <<>>
    /\ lock[LockOf(Inst)] = "free"
    /\ ENABLED Acquire("t1", Inst)

\* C31: a get of a key returns the default or the value of the latest set of
\* that key whose entry was not removed since (by delete, clear, eviction or
\* expiry): never the value of another key, never an older value of the key.
C31_GetReturnsLatestSet ==
    [][\A k \in Keys :
         (IsCall("get") /\ last'.key = k)
         => /\ k \notin DOMAIN written[Inst] => last'.ret = None
            /\ k \in DOMAIN written[Inst] =>
                  last'.ret \in {None, written[Inst][k].value}
            /\ last'.branch = "valid" =>
                  /\ k \in DOMAIN written[Inst]
                  /\ last'.ret = written[Inst][k].value]_vars

\* key A was set twice, the second time with v2, and a get returned v2
C31_Witness ==
    /\ last.op = "get" /\ last.key = "A" /\ last.ret = "v2" /\ last.branch = "valid"
    /\ caches[Inst].stats.sets = 2 /\ Len(caches[Inst].cache) = 1
    /\ caches[Inst].stats.deletes = 0 /\ caches[Inst].stats.expirations = 0
    /\ caches[Inst].stats.evictions = 0

\* sets - deletes - evictions - expirations - current_size of an instance
Slack(c) ==
    c.stats.sets - c.stats.deletes - c.stats.evictions - c.stats.expirations
        - Len(c.cache)

\* C32: current_size <= sets - deletes - evictions - expirations in every
\* state, with equality as long as no set has overwritten a resident key and
\* clear was not called: the difference is 0 at construction and only a set of
\* a resident key or a clear changes it.
C32_SizeBoundedByCounters ==
    [][/\ Slack(caches[Inst]) >= 0
       /\ Slack(caches'[Inst]) >= 0
       /\ Slack(caches'[Inst]) # Slack(caches[Inst])
             => \/ IsCall("clear")
                \/ IsCall("set") /\ HasKey(caches[Inst].cache, last'.key)]_vars

\* C33: one set evicts at most one entry (evictions grows by 0 or 1), and a
\* set of a key that is already resident evicts nothing, also when the
\* instance is full: the other entries stay and the size does not change.
C33_SetEvictsAtMostOne ==
    [][IsCall("set")
       => LET c == caches[Inst]
              d == caches'[Inst]
          IN  /\ d.stats.evictions - c.stats.evictions \in {0, 1}
              /\ d.stats.evictions = c.stats.evictions + 1
                    => /\ ~HasKey(c.cache, last'.key)
                       /\ Len(c.cache) = c.max_size
                       /\ KeysOf(c.cache) \ KeysOf(d.cache) = {c.cache[1].key}
              /\ HasKey(c.cache, last'.key)
                    => /\ d.stats.evictions = c.stats.evictions
                       /\ KeysOf(c.cache) \ {last'.key} \subseteq KeysOf(d.cache)]_vars

\* a set of a resident key into a full instance: nothing was evicted
C33_Witness ==
    /\ last.op = "set" /\ last.branch = "replace" /\ last.ret = "True"
    /\ Len(caches[Inst].cache) = caches[Inst].max_size
    /\ caches[Inst].stats.sets = caches[Inst].max_size + 1
    /\ caches[Inst].stats.evictions = 0
    /\ caches[Inst].stats.deletes = 0 /\ caches[Inst].stats.expirations = 0

\* -------------------------------------------------------- SetLoopSpec
\* SetLoopSpec: LRUCache.set statement by statement, on an instance built
\* with a max_size of 1..MaxCapacity, called by two threads next to get and
\* delete.  A thread enters "with self.lock:", removes the entry of the key,
\* runs the eviction loop one iteration per step, stores the entry and
\* leaves the block.
loopFrame == <<wpc, inconsistent, hist, lost, req, reaper>>

SetLoopInit ==
    \E n \in 1..MaxCapacity :
        /\ caches = [m \in CacheTypes |-> NewCache(n, DefaultTtl, 0)]
        /\ now = 0
        /\ last = NoCall
        /\ touched = [m \in CacheTypes |-> <<>>]
        /\ written = [m \in CacheTypes |-> EmptyDict]
        /\ nops = 0
        /\ wpc = [w \in Workers |-> [i |-> 0, at |-> "set"]]
        /\ inconsistent = FALSE
        /\ call = [t \in LockThreads |-> Idle]
        /\ hist = <<>>
        /\ lost = {}
        /\ req = NoRequest
        /\ lock = [l \in CacheTypes |-> "free"]
        /\ thr = [t \in LockThreads |-> "idle"]
        /\ reaper = NewReaper

\* "if key in self.cache: del self.cache[key]; del self.expiry_times[key]"
SetRemoveOld(t, key, value) ==
    /\ thr[t] = Inst
    /\ call[t].pc = "idle"
    /\ caches' = [caches EXCEPT ![Inst] =
                     IF HasKey(@.cache, key)
                     THEN [@ EXCEPT !.cache = DelKey(@, key),
                                    !.expiry_times = DictDel(@, key)]
                     ELSE @]
    /\ call' = [call EXCEPT ![t] =
                   [pc |-> "loop", key |-> key, value |-> value,
                    size |-> Len(caches[Inst].cache),
                    branch |-> IF HasKey(caches[Inst].cache, key)
                               THEN "replace" ELSE "new"]]
    /\ UNCHANGED <<now, last, touched, written, nops, lock, thr, loopFrame>>

\* one iteration of "while len(self.cache) >= self.max_size: self._evict_lru()"
SetEvict(t) ==
    /\ call[t].pc = "loop"
    /\ Len(caches[Inst].cache) >= caches[Inst].max_size
    /\ caches' = [caches EXCEPT ![Inst] = EvictLru(@)]
    /\ UNCHANGED <<now, last, touched, written, nops, call, lock, thr, loopFrame>>

\* the loop is left: "self.cache[key] = value", the expiry record, the
\* counter; the "with self.lock:" block ends and set returns True
SetStore(t) ==
    /\ call[t].pc = "loop"
    /\ Len(caches[Inst].cache) < caches[Inst].max_size
    /\ LET key == call[t].key
           c == [caches[Inst] EXCEPT
                    !.cache = Append(@, [key |-> key, value |-> call[t].value]),
                    !.expiry_times = DictPut(@, key, now + TtlOrDefault(caches[Inst], <<1>>))]
       IN  /\ caches' = [caches EXCEPT ![Inst] = Bump(c, "sets")]
           /\ last' = [NoCall EXCEPT !.op = "set", !.inst = Inst, !.key = key,
                                     !.value = call[t].value, !.ttl = <<1>>,
                                     !.size = call[t].size,
                                     !.branch = call[t].branch, !.ret = "True"]
           /\ written' = [written EXCEPT ![Inst] =
                  Forget(DictPut(@, key, [at |-> now, ttl |-> <<1>>,
                                          value |-> call[t].value]), c.cache)]
           /\ touched' = [touched EXCEPT ![Inst] = Resident(Touch(@, key), c.cache)]
    /\ nops' = nops + 1
    /\ call' = [call EXCEPT ![t] = Idle]
    /\ Release(t)
    /\ UNCHANGED <<now, loopFrame>>

\* the statements of set that follow the entry into the lock
SetLoopStep(t) ==
    \/ \E key \in Keys : SetRemoveOld(t, key, "v1")
    \/ SetEvict(t)
    \/ SetStore(t)

SetLoopNext ==
    \/ \E t \in LockThreads : nops < MaxLoopOps /\ Acquire(t, Inst)
    \/ \E t \in LockThreads, key \in Keys : SetRemoveOld(t, key, "v1")
    \/ \E t \in LockThreads : SetEvict(t)
    \/ \E t \in LockThreads : SetStore(t)
    \/ \E t \in LockThreads : call[t].pc = "idle" /\ LockedGet(t, "A")
    \/ \E t \in LockThreads : call[t].pc = "idle" /\ LockedDelete(t, "A")
    \/ Tick

\* a thread inside set is runnable and the scheduler keeps running it
SetLoopSpec ==
    /\ SetLoopInit
    /\ [][SetLoopNext]_vars
    /\ \A t \in LockThreads : WF_vars(SetEvict(t)) /\ WF_vars(SetStore(t))

\* C34: every set terminates, for every max_size >= 1: an iteration of the
\* eviction loop makes the number of resident entries strictly smaller, the
\* loop is left, the entry is stored and the lock is released.
C34_SetTerminates ==
    /\ [][\A t \in LockThreads :
             (call[t].pc = "loop" /\ call'[t].pc = "loop" /\ caches' # caches)
             => /\ Len(caches'[Inst].cache) < Len(caches[Inst].cache)
                /\ Len(caches'[Inst].cache) < caches[Inst].max_size]_vars
    /\ \A t \in LockThreads :
           (call[t].pc = "loop")
               ~> (call[t].pc = "idle" /\ thr[t] = "idle" /\ lock[LockOf(Inst)] # t)

\* a set into a full instance of max_size 1 has evicted an entry, stored its
\* own and released the lock
C34_Witness ==
    /\ caches[Inst].max_size = 1
    /\ last.op = "set" /\ last.branch = "new" /\ last.size = 1
    /\ caches[Inst].stats.evictions = 1
    /\ Len(caches[Inst].cache) = 1
    /\ \A t \in LockThreads : call[t].pc = "idle" /\ thr[t] = "idle"
    /\ lock[LockOf(Inst)] = "free"

\* ---------------------------------------------------------- SweepSpec
\* SweepSpec: the cleanup thread of one instance next to foreground calls;
\* the thread is scheduled fairly: its sleep ends and its sweep is carried out.
SweepNext ==
    \/ \E key \in Keys : nops < MaxSweepOps /\ Set(Inst, key, "v1", <<1>>)
    \/ \E key \in Keys : nops < MaxSweepOps /\ Get(Inst, key)
    \/ \E key \in Keys : nops < MaxSweepOps /\ Exists(Inst, key)
    \/ \E key \in Keys : nops < MaxSweepOps /\ Delete(Inst, key)
    \/ ReaperWake
    \/ ReaperSweep
    \/ Tick

SweepSpec ==
    Init /\ [][SweepNext]_vars /\ WF_vars(ReaperWake) /\ WF_vars(ReaperSweep)

\* the entry of key k that expires at e is resident and e has passed
Overdue(k, e) ==
    /\ HasKey(caches[Inst].cache, k)
    /\ k \in DOMAIN caches[Inst].expiry_times
    /\ caches[Inst].expiry_times[k] = e
    /\ now > e

\* the entry of key k that expires at e is neither in the entry store nor in
\* the expiry index: the key is in neither, or in both with a later expiry
\* (an entry stored since)
Gone(k, e) ==
    \/ /\ ~HasKey(caches[Inst].cache, k)
       /\ k \notin DOMAIN caches[Inst].expiry_times
    \/ /\ HasKey(caches[Inst].cache, k)
       /\ k \in DOMAIN caches[Inst].expiry_times
       /\ caches[Inst].expiry_times[k] > e

\* C35: with the cleanup thread scheduled fairly, an entry whose expiry time
\* has passed is eventually removed from the entry store and the expiry index,
\* whether or not a foreground call touches its key again.
C35_OverdueEntryEventuallyRemoved ==
    \A k \in Keys : \A e \in 0..MaxTime : Overdue(k, e) ~> Gone(k, e)

\* the cleanup thread removed two overdue entries that no get, exists or
\* delete had touched
C35_Witness ==
    /\ last.op = "sweep"
    /\ caches[Inst].stats.expirations = 2
    /\ caches[Inst].stats.sets = 2
    /\ caches[Inst].stats.hits = 0 /\ caches[Inst].stats.misses = 0
    /\ caches[Inst].stats.deletes = 0
    /\ nops = 2
    /\ Len(caches[Inst].cache) = 0
    /\ DOMAIN caches[Inst].expiry_times = {}

\* ----------------------------------------------------------- RaceSpec
\* RaceSpec: two foreground threads and the cleanup thread of one instance;
\* every call and every sweep takes the lock of the instance, so a get or
\* exists of an overdue key and a sweep run in either order.
RaceKeys == {"A", "B", "C"}

RaceNext ==
    \/ \E t \in LockThreads : nops < MaxRaceOps /\ Acquire(t, Inst)
    \/ \E t \in LockThreads, key \in RaceKeys : LockedSet(t, key, "v1")
    \/ \E t \in LockThreads : LockedGet(t, "A")
    \/ \E t \in LockThreads : LockedExists(t, "A")
    \/ \E t \in LockThreads : LockedDelete(t, "A")
    \/ \E t \in LockThreads : LockedClear(t)
    \/ ReaperWake
    \/ ReaperAcquire
    \/ ReaperLockedSweep
    \/ Tick

RaceSpec == Init /\ [][RaceNext]_vars

\* C36: a get or exists of an overdue key and a sweep that race for it
\* remove the entry once and count one expiration; in every interleaving a
\* step that removes entries counts each of them in exactly one of deletes,
\* evictions and expirations, except the entry of the key a set overwrites
\* and the entries a clear removes, which are counted nowhere.
C36_RemovalsCountedOnce ==
    [][LET c == caches[Inst]
           d == caches'[Inst]
           gone == KeysOf(c.cache) \ KeysOf(d.cache)
           deleted == d.stats.deletes - c.stats.deletes
           evicted == d.stats.evictions - c.stats.evictions
           expired == d.stats.expirations - c.stats.expirations
       IN  /\ deleted >= 0 /\ evicted >= 0 /\ expired >= 0
           /\ d = c => gone = {}
           /\ d # c =>
                CASE last'.op = "clear" ->
                       deleted = 0 /\ evicted = 0 /\ expired = 0
                  [] last'.op = "set" ->
                       /\ deleted = 0 /\ expired = 0
                       /\ evicted = Cardinality(gone \ {last'.key})
                  [] last'.op = "delete" ->
                       /\ evicted = 0 /\ expired = 0
                       /\ gone \subseteq {last'.key}
                       /\ deleted = Cardinality(gone)
                  [] last'.op \in {"get", "exists"} ->
                       /\ deleted = 0 /\ evicted = 0
                       /\ gone \subseteq {last'.key}
                       /\ expired = Cardinality(gone)
                       /\ gone # {} => IsExpired(c, last'.key, now)
                  [] last'.op = "sweep" ->
                       /\ deleted = 0 /\ evicted = 0
                       /\ gone = {k \in KeysOf(c.cache) : IsExpired(c, k, now)}
                       /\ expired = Cardinality(gone)
                  [] OTHER -> FALSE]_vars

\* the cleanup thread woke up and waits for the lock while a get removed the
\* overdue entry and counted it; the sweep that follows finds nothing
C36_Witness ==
    /\ last.op = "get" /\ last.branch = "expired"
    /\ reaper.pc = "sweep"
    /\ caches[Inst].stats.expirations = 1
    /\ Len(caches[Inst].cache) = 0
    /\ ENABLED ReaperAcquire

\* --------------------------------------------------------- ExpirySpec
\* ExpirySpec: one instance whose entries are written with a ttl of one tick
\* or with the default ttl, so that an entry used later can be overdue before
\* an entry used earlier.  The history keeps what the last set found and did.
expiryFrame == <<wpc, inconsistent, call, lost, auxVars>>

\* the resident keys whose expiry time has passed
OverdueKeys(c, t) == {k \in KeysOf(c.cache) : IsExpired(c, k, t)}

ObservedSet(key, ttl) ==
    /\ CacheSet(Inst, key, "v1", ttl)
    /\ hist' = <<[key |-> key,
                  size |-> Len(caches[Inst].cache),
                  lru |-> IF Len(caches[Inst].cache) = 0 THEN None
                          ELSE Head(caches[Inst].cache).key,
                  overdue |-> OverdueKeys(caches[Inst], now),
                  gone |-> KeysOf(caches[Inst].cache) \ KeysOf(caches'[Inst].cache)]>>
    /\ UNCHANGED expiryFrame

ExpiryNext ==
    \/ \E key \in Keys, ttl \in {<<>>, <<1>>} :
           nops < MaxExpiryOps /\ ObservedSet(key, ttl)
    \/ \E key \in Keys : nops < MaxExpiryOps /\ Get(Inst, key)
    \/ nops < MaxExpiryOps /\ Stats(Inst)
    \/ Tick

ExpirySpec == Init /\ [][ExpiryNext]_vars

\* C37: an overdue entry that was not removed yet counts in current_size and
\* against max_size, and the eviction victim is chosen by recency alone: a set
\* of a new key into a full instance evicts the least recently used entry and
\* nothing else, whether or not that entry is overdue and whether or not
\* other resident entries are; no overdue entry is dropped in its place.
C37_EvictionIgnoresExpiry ==
    [][/\ GetStatsOp(caches[Inst], now).ret.current_size = Len(caches[Inst].cache)
       /\ OverdueKeys(caches[Inst], now) \subseteq KeysOf(caches[Inst].cache)
       /\ IsCall("set") =>
            LET c == caches[Inst]
                d == caches'[Inst]
                gone == KeysOf(c.cache) \ KeysOf(d.cache)
            IN  /\ d.stats.expirations = c.stats.expirations
                /\ (~HasKey(c.cache, last'.key) /\ Len(c.cache) = c.max_size)
                      => /\ gone = {Head(c.cache).key}
                         /\ d.stats.evictions = c.stats.evictions + 1
                         /\ OverdueKeys(c, now) \ {Head(c.cache).key}
                                \subseteq KeysOf(d.cache)
                /\ (HasKey(c.cache, last'.key) \/ Len(c.cache) < c.max_size)
                      => gone = {} /\ d.stats.evictions = c.stats.evictions]_vars

\* a set into a full instance evicted the least recently used entry, which
\* was not overdue, while the other resident entry was overdue and stayed
C37_Witness ==
    /\ last.op = "set" /\ Len(hist) = 1
    /\ hist[1].size = caches[Inst].max_size
    /\ hist[1].gone = {hist[1].lru}
    /\ hist[1].lru \notin hist[1].overdue
    /\ hist[1].overdue # {}
    /\ hist[1].overdue \subseteq KeysOf(caches[Inst].cache)
    /\ caches[Inst].stats.evictions = 1
    /\ caches[Inst].stats.expirations = 0
    /\ Len(caches[Inst].cache) = caches[Inst].max_size

\* ------------------------------------------------------- StampedeSpec
\* StampedeSpec: NumCallers threads call one function decorated with
\* cache_result, each once and with the same arguments, on a cold cache.  The
\* function does not raise and the cache layer does not fault; a call is the
\* steps of the wrapper (cache.get, the function, cache.set), and the steps
\* of the threads interleave.
StampedeThreads == {"t" \o IntStr(i) : i \in 1..NumCallers}

\* what the function returns when it is invoked
StampedeResults == Outcomes("result") \ {"raise"}

StampedeKey == WrapperKey("result", "-", <<1>>)

StampedeInit ==
    /\ caches = NewCacheManager(0)
    /\ now = 0
    /\ last = NoCall
    /\ touched = [n \in CacheTypes |-> <<>>]
    /\ written = [n \in CacheTypes |-> EmptyDict]
    /\ nops = 0
    /\ wpc = [w \in Workers |-> [i |-> 0, at |-> "set"]]
    /\ inconsistent = FALSE
    /\ call = [t \in StampedeThreads |-> Idle]
    /\ hist = <<>>
    /\ lost = {}
    /\ req = NoRequest
    /\ lock = [l \in CacheTypes |-> "free"]
    /\ thr = [t \in StampedeThreads |-> "idle"]
    /\ reaper = NewReaper

\* the thread calls the decorated function
StampedeBegin(t) ==
    /\ thr[t] = "idle"
    /\ call[t].pc = "idle"
    /\ thr' = [thr EXCEPT ![t] = "called"]
    /\ call' = [call EXCEPT ![t] = NewCall("result", "-", <<1>>)]
    /\ UNCHANGED <<coreVars, now, wpc, inconsistent, hist, lost, req, lock, reaper>>

StampedeNext ==
    \/ \E t \in StampedeThreads : StampedeBegin(t)
    \/ \E t \in StampedeThreads : MemoGet(t)
    \/ \E t \in StampedeThreads, outcome \in StampedeResults : MemoCompute(t, outcome)
    \/ \E t \in StampedeThreads : MemoSet(t)
    \/ Tick

StampedeSpec == StampedeInit /\ [][StampedeNext]_vars

\* the calls in progress
Running == {t \in StampedeThreads : call[t].pc # "idle"}

RECURSIVE SumInv(_)
SumInv(i) == IF i = 0 THEN 0 ELSE hist[i].inv + SumInv(i - 1)

RECURSIVE SumRunning(_)
SumRunning(ts) ==
    IF ts = {} THEN 0
    ELSE LET t == CHOOSE x \in ts : TRUE
         IN  call[t].inv + SumRunning(ts \ {t})

\* the number of times the function was invoked so far
Invocations == SumInv(Len(hist)) + SumRunning(Running)

\* the values the invocations returned so far
Produced ==
    {hist[i].outcome : i \in {j \in 1..Len(hist) : hist[j].inv > 0}}
        \cup {call[t].outcome : t \in {u \in Running : call[u].inv > 0}}

\* every thread has called and received its value
AllReturned ==
    /\ Len(hist) = NumCallers
    /\ \A t \in StampedeThreads : thr[t] = "called" /\ call[t].pc = "idle"

\* C38: k threads call a memoized function that does not raise, with the
\* same arguments, on a cold cache: the function is invoked at least once and
\* at most k times, every caller receives a value returned by one of the
\* invocations, and when all have returned the cache holds exactly one entry
\* under the key of the call.
C38_StampedeBounded ==
    /\ Invocations <= NumCallers
    /\ \A t \in StampedeThreads : call[t].pc # "idle" => call[t].inv <= 1
    /\ \A i \in 1..Len(hist) :
           /\ ~hist[i].raised
           /\ hist[i].inv <= 1
           /\ hist[i].ret \in Produced
    /\ Len(hist) > 0 => Invocations >= 1
    /\ AllReturned =>
           LET c == caches[MemoType]
           IN  /\ Cardinality({i \in 1..Len(c.cache) : c.cache[i].key = StampedeKey}) = 1
               /\ Len(c.cache) = 1
               /\ DOMAIN c.expiry_times = {StampedeKey}
               /\ ValueOf(c.cache, StampedeKey) \in Produced

\* all threads missed the cold cache, every one of them invoked the function
\* and stored its value, and one entry is left
C38_Witness ==
    /\ AllReturned
    /\ Invocations = NumCallers
    /\ caches[MemoType].stats.sets = NumCallers
    /\ caches[MemoType].stats.hits = 0
    /\ Len(caches[MemoType].cache) = 1

====
